---- MODULE Spec2Model ----
\* Contention-experiment controller of scripts/run_experiment_only.py:
\* main() -> run_experiment(): node setup, kernel install, network
\* configuration, then the three phases inside try/finally, the report and the
\* process exit.  Remote nodes are modelled by what the controller can observe
\* or change on them: the running processes, the router's shaping discipline
\* and the receiver's rx byte counter.
EXTENDS Integers, Sequences, FiniteSets, TLC

-----------------------------------------------------------------------------
\* Numbers.  Python floats are modelled as exact rationals n/d (d > 0, lowest
\* terms) plus the not-a-number value.

RECURSIVE GCD(_, _)
GCD(a, b) == IF b = 0 THEN a ELSE GCD(b, a % b)

Abs(x) == IF x < 0 THEN -x ELSE x

NaN == [k |-> "nan", n |-> 0, d |-> 1]

Num(n, d) ==
    LET g == GCD(Abs(n), d)
    IN  IF n = 0 THEN [k |-> "num", n |-> 0, d |-> 1]
        ELSE [k |-> "num", n |-> n \div g, d |-> d \div g]

Int2Num(i) == Num(i, 1)

IsNaN(x) == x.k = "nan"

NumAdd(x, y) == IF IsNaN(x) \/ IsNaN(y) THEN NaN
                ELSE Num(x.n * y.d + y.n * x.d, x.d * y.d)

NumSub(x, y) == IF IsNaN(x) \/ IsNaN(y) THEN NaN
                ELSE Num(x.n * y.d - y.n * x.d, x.d * y.d)

NumMul(x, y) == IF IsNaN(x) \/ IsNaN(y) THEN NaN
                ELSE Num(x.n * y.n, x.d * y.d)

\* what a float division by zero leaves instead of a value: ZeroDivisionError
ZeroDivision == [k |-> "raise", n |-> 0, d |-> 1]
Raises(x) == x.k = "raise"

\* x / y; not-a-number operands come before the zero check, as in Python
NumDiv(x, y) == IF IsNaN(x) \/ IsNaN(y) THEN NaN
                ELSE IF y.n = 0 THEN ZeroDivision
                ELSE IF y.n < 0 THEN Num((0 - x.n) * y.d, x.d * (0 - y.n))
                ELSE Num(x.n * y.d, x.d * y.n)

\* x > y; every comparison with not-a-number is false
NumGt(x, y) == ~IsNaN(x) /\ ~IsNaN(y) /\ x.n * y.d > y.n * x.d

NumLe(x, y) == ~IsNaN(x) /\ ~IsNaN(y) /\ x.n * y.d <= y.n * x.d

IsZero(x) == ~IsNaN(x) /\ x.n = 0

\* (variant: no clamp)
PyMaxNoClamp(x) == x
\* Python's max(0, x): the second argument wins only if it compares greater
PyMax0(x) == IF NumGt(x, Int2Num(0)) THEN x ELSE Int2Num(0)

RECURSIVE NumSum(_)
NumSum(s) == IF s = <<>> THEN Int2Num(0) ELSE NumAdd(Head(s), NumSum(Tail(s)))

\* (variant: the sum is not divided by the count)
NumMeanAsSum(s) == NumSum(s)
\* sum(...) / len(...)
NumMean(s) == NumDiv(NumSum(s), Int2Num(Len(s)))

-----------------------------------------------------------------------------
\* Phases (run_experiment_only.py:284-288)

NumPhases == 3

phases == <<
    [name |-> "baseline",     attack |-> FALSE, loss |-> 0],
    [name |-> "wired_attack", attack |-> TRUE,  loss |-> 0],
    [name |-> "lossy_attack", attack |-> TRUE,  loss |-> 2] >>

\* the for statement's iteration order over phases
NextPhase(i) == i + 1

\* Nodes of the slice that the phases act on
Gamer == "gamer-a"
Receiver == "receiver-b"
Attacker == "attacker-d"

\* Timing constants of a phase (seconds)
SettleSeconds == 2
MonitorWarmupSeconds == 5
WarmupSeconds == 5
RunSeconds == 40
DrainSeconds == 2

\* Shaping constants
CapacityMbit == 40
QueueLimit == 1000

-----------------------------------------------------------------------------
\* Remote processes.  A process is [node, kind, phase]: where it runs, what it
\* is, and the phase whose step started it (0: left over from before the run).

Kinds == {"monitor", "sender", "ping", "iperf_server", "iperf_client"}

\* pkill -f <pattern> matches the pattern against the whole command line
Matches(pattern, kind) ==
    CASE pattern = "python3" -> kind \in {"monitor", "sender"}
      [] pattern = "iperf3"  -> kind \in {"iperf_server", "iperf_client"}
      [] pattern = "ping"    -> kind = "ping"
      [] OTHER               -> FALSE

Pkill(ps, node, pattern) ==
    {p \in ps : ~(p.node = node /\ Matches(pattern, p.kind))}

\* the nodes the "Cleanup" loop and the finally block go over, in order
CleanupNodes == <<Gamer, Receiver, Attacker>>

\* (variant: the loop body kills the python3 processes only)
CleanupPatternsNoIperf == <<"python3">>
\* the patterns the loop body kills on each node, in order
CleanupPatterns == <<"python3", "iperf3">>

RECURSIVE PkillAll(_, _, _)
PkillAll(ps, node, patterns) ==
    IF patterns = <<>> THEN ps
    ELSE PkillAll(Pkill(ps, node, Head(patterns)), node, Tail(patterns))

\* the kills of "Stop Everything"
StopCmds(phase) ==
    << <<Gamer, "python3">>, <<Gamer, "ping">>, <<Receiver, "python3">> >>
    \o (IF phase.attack THEN << <<Attacker, "iperf3">> >> ELSE <<>>)

-----------------------------------------------------------------------------
\* Shaping discipline of the router's data interface, as tc keeps it:
\* a root qdisc, the classes under it and the leaf qdiscs under the classes.

NoShaping == [root |-> "none", classes |-> {}, leaves |-> {}]

\* tc qdisc del dev <iface> root: removes the root with everything under it;
\* with no root it fails and changes nothing (the error is not looked at)
\* (variant: the removal is left out)
TcDelRootNoop(t) == t
TcDelRoot(t) == NoShaping

\* tc qdisc add dev <iface> root handle 1: htb default 10: refused when a
\* root qdisc is already installed
TcAddRoot(t) ==
    IF t.root = "none" THEN [t EXCEPT !.root = "htb"] ELSE t

\* tc class add dev <iface> parent 1: classid 1:10 htb rate 40mbit ceil 40mbit
TcAddClass(t) ==
    IF t.root = "htb" /\ \A c \in t.classes : c.classid # "1:10"
    THEN [t EXCEPT !.classes = @ \cup
            {[classid |-> "1:10", rate |-> CapacityMbit, ceil |-> CapacityMbit]}]
    ELSE t

\* (variant: the loss option is always appended)
TcAddLeafLossAlways(t, phase) ==
    IF (\E c \in t.classes : c.classid = "1:10")
       /\ \A l \in t.leaves : l.parent # "1:10"
    THEN [t EXCEPT !.leaves = @ \cup
            {[parent |-> "1:10", kind |-> "netem", limit |-> QueueLimit,
              lossOpt |-> <<phase.loss>>]}]
    ELSE t

\* tc qdisc add dev <iface> parent 1:10 handle 10: netem limit 1000 [loss L%]
\* (lossOpt is the loss option's value, or empty when the option is not given)
TcAddLeaf(t, phase) ==
    IF (\E c \in t.classes : c.classid = "1:10")
       /\ \A l \in t.leaves : l.parent # "1:10"
    THEN [t EXCEPT !.leaves = @ \cup
            {[parent |-> "1:10", kind |-> "netem", limit |-> QueueLimit,
              lossOpt |-> IF phase.loss > 0 THEN <<phase.loss>> ELSE <<>>]}]
    ELSE t

\* the four commands of the ROUTER CONFIG block, in order
ApplyShaping(t, phase) ==
    TcAddLeaf(TcAddClass(TcAddRoot(TcDelRoot(t))), phase)

-----------------------------------------------------------------------------
\* Reduction of a phase's artifacts (run_experiment_only.py:384-506)

\* a CSV or log field that float() rejects
Bad == [k |-> "bad", n |-> 0, d |-> 1]

\* Interface throughput: (end - start) * 8 / (40 * 1_000_000)
TotalMbps(start_bytes, end_bytes) ==
    Num((end_bytes - start_bytes) * 8, RunSeconds * 1000000)

\* A line of attack.log is [tag, unit, val]: tag "SUM" for a line holding
\* "[SUM]", "flow" for one holding "[  " and not "[ ID]", "other" otherwise;
\* unit is the word holding "bits/sec" ("none" when the line has none) and
\* val the word before it.
ScaleRate(l) ==
    CASE l.unit = "Gbits/sec" -> NumMul(l.val, Int2Num(1000))
      [] l.unit = "Kbits/sec" -> NumDiv(l.val, Int2Num(1000))
      [] OTHER                -> l.val

RECURSIVE ParseRates(_, _)
ParseRates(lines, has_sum) ==
    IF lines = <<>> THEN <<>>
    ELSE LET l == Head(lines)
             parse_line == \/ has_sum /\ l.tag = "SUM"
                           \/ ~has_sum /\ l.tag = "flow"
         IN  (IF parse_line /\ l.unit # "none" /\ l.val.k # "bad"
              THEN <<ScaleRate(l)>> ELSE <<>>)
             \o ParseRates(Tail(lines), has_sum)

\* (variant: no parsed rate gives 0.0)
AttackThroughputZeroDefault(lines) ==
    LET has_sum == \E i \in 1..Len(lines) : lines[i].tag = "SUM"
        rates == ParseRates(lines, has_sum)
    IN  IF rates # <<>> THEN NumMean(rates) ELSE Int2Num(0)
\* attack_throughput from a downloaded attack.log
AttackThroughput(lines) ==
    LET has_sum == \E i \in 1..Len(lines) : lines[i].tag = "SUM"
        rates == ParseRates(lines, has_sum)
    IN  IF rates # <<>> THEN NumMean(rates) ELSE NaN

Column(rows, f) == [i \in 1..Len(rows) |-> rows[i][f]]
AnyBad(s) == \E i \in 1..Len(s) : s[i].k = "bad"

\* (variant: the bitrate column is never read)
ReduceMetricsKeepGame(file, ok, game) ==
    LET rows == file.rows
        none == [r_avg_fps |-> Int2Num(0), r_stall_time |-> Int2Num(0),
                 game_mbps |-> game]
        fps == Column(rows, "fps")
        stall == Column(rows, "stall_duration_ms")
    IN  IF ~ok \/ rows = <<>> \/ AnyBad(fps) THEN none
        ELSE IF AnyBad(stall)
             THEN [none EXCEPT !.r_avg_fps = NumMean(fps)]
        ELSE [none EXCEPT !.r_avg_fps = NumMean(fps),
                          !.r_stall_time = NumSum(stall)]
\* "Game Quality (FPS/Stalls)": file is the downloaded snapshot log, ok is
\* FALSE when the download raised, game is game_mbps as derived before.
\* Each assignment is reached only if no earlier float() raised.
ReduceMetrics(file, ok, game) ==
    LET rows == file.rows
        none == [r_avg_fps |-> Int2Num(0), r_stall_time |-> Int2Num(0),
                 game_mbps |-> game]
        fps == Column(rows, "fps")
        stall == Column(rows, "stall_duration_ms")
        rate == Column(rows, "bitrate_mbps")
    IN  IF ~ok \/ rows = <<>> \/ AnyBad(fps) THEN none
        ELSE IF AnyBad(stall)
             THEN [none EXCEPT !.r_avg_fps = NumMean(fps)]
        ELSE IF ~file.hasBitrate \/ AnyBad(rate)
             THEN [none EXCEPT !.r_avg_fps = NumMean(fps),
                               !.r_stall_time = NumSum(stall)]
        ELSE [r_avg_fps |-> NumMean(fps), r_stall_time |-> NumSum(stall),
              game_mbps |-> NumMean(rate)]

\* a collection error: the snapshot log could not be downloaded, is empty or
\* holds a field that does not parse
CollectionError(file, ok) ==
    \/ ~ok
    \/ file.rows = <<>>
    \/ \E f \in {"fps", "stall_duration_ms", "bitrate_mbps"} :
          AnyBad(Column(file.rows, f))

\* (variant: the denominator is not doubled)
JainIndexNoHalf(phase, game, attack) ==
    IF ~phase.attack THEN NaN
    ELSE IF IsNaN(game) \/ (IsNaN(attack) /\ phase.attack) THEN NaN
    ELSE IF ~phase.attack \/ IsZero(attack) THEN Int2Num(1)
    ELSE LET total_t == NumAdd(game, attack)
             sum_sq == NumAdd(NumMul(game, game), NumMul(attack, attack))
         IN  IF NumLe(total_t, Int2Num(0)) \/ NumLe(sum_sq, Int2Num(0)) THEN NaN
             ELSE NumDiv(NumMul(total_t, total_t), sum_sq)
\* (variant: the ratio of the larger throughput's share)
JainIndexMinOverMax(phase, game, attack) ==
    IF ~phase.attack THEN NaN
    ELSE IF IsNaN(game) \/ (IsNaN(attack) /\ phase.attack) THEN NaN
    ELSE IF ~phase.attack \/ IsZero(attack) THEN Int2Num(1)
    ELSE IF NumLe(game, attack) THEN NumDiv(game, attack)
    ELSE NumDiv(attack, game)
\* "Jain's Fairness Index"
JainIndex(phase, game, attack) ==
    IF ~phase.attack THEN NaN
    ELSE IF IsNaN(game) \/ (IsNaN(attack) /\ phase.attack) THEN NaN
    ELSE IF ~phase.attack \/ IsZero(attack) THEN Int2Num(1)
    ELSE LET total_t == NumAdd(game, attack)
             sum_sq == NumAdd(NumMul(game, game), NumMul(attack, attack))
         IN  IF NumLe(total_t, Int2Num(0)) \/ NumLe(sum_sq, Int2Num(0)) THEN NaN
             ELSE NumDiv(NumMul(total_t, total_t), NumMul(Int2Num(2), sum_sq))

\* the dict appended to final_results
PhaseResult(phase, l) ==
    [phase |-> phase.name,
     avg_fps |-> l.r_avg_fps,
     total_stall_ms |-> l.r_stall_time,
     game_mbps |-> l.game_mbps,
     attack_mbps |-> l.attack_throughput,
     j_index |-> JainIndex(phase, l.game_mbps, l.attack_throughput)]

-----------------------------------------------------------------------------
\* The phase report as text (csv.DictWriter, run_experiment_only.py:526-530)
\* and as read back by the plotting step (pandas.read_csv,
\* plot_results.py:83, 125).  A cell is [t, s, neg, int, frac]: the text
\* "nan", a string s, or a decimal numeral with integer part int and
\* fraction digits frac.

\* digits that the repr of a float prints at most
ReprDigits == 17

RECURSIVE FracDigits(_, _, _)
FracDigits(rem, d, k) ==
    IF rem = 0 \/ k = 0 THEN << >>
    ELSE << (rem * 10) \div d >> \o FracDigits((rem * 10) % d, d, k - 1)

StrCell(s) == [t |-> "str", s |-> s, neg |-> FALSE, int |-> 0, frac |-> << >>]

\* (variant: numbers are written without their fraction)
FormatFloatNoFraction(x) ==
    IF IsNaN(x) THEN [StrCell("") EXCEPT !.t = "nan"]
    ELSE [StrCell("") EXCEPT !.t = "num", !.neg = x.n < 0,
                             !.int = Abs(x.n) \div x.d, !.frac = << 0 >>]
\* str() of a float as the csv writer applies it: "nan", or the decimal
\* numeral with at least one fraction digit ("45.0"); a value whose
\* expansion is longer than ReprDigits is cut there
FormatFloat(x) ==
    IF IsNaN(x) THEN [StrCell("") EXCEPT !.t = "nan"]
    ELSE LET digits == FracDigits(Abs(x.n) % x.d, x.d, ReprDigits)
         IN  [StrCell("") EXCEPT !.t = "num", !.neg = x.n < 0,
                                 !.int = Abs(x.n) \div x.d,
                                 !.frac = IF digits = << >> THEN << 0 >>
                                          ELSE digits]

\* writer.writerows(final_results)
WriteCsv(results) ==
    [i \in 1..Len(results) |->
        [phase |-> StrCell(results[i].phase),
         avg_fps |-> FormatFloat(results[i].avg_fps),
         total_stall_ms |-> FormatFloat(results[i].total_stall_ms),
         game_mbps |-> FormatFloat(results[i].game_mbps),
         attack_mbps |-> FormatFloat(results[i].attack_mbps),
         j_index |-> FormatFloat(results[i].j_index)]]

\* the strings pandas.read_csv takes for a missing value
NaStrings == {"", "#N/A", "#N/A N/A", "#NA", "-1.#IND", "-1.#QNAN", "-NaN",
              "-nan", "1.#IND", "1.#QNAN", "<NA>", "N/A", "NA", "NULL",
              "NaN", "None", "n/a", "nan", "null"}

RECURSIVE Pow10(_)
Pow10(k) == IF k = 0 THEN 1 ELSE 10 * Pow10(k - 1)

RECURSIVE DigitsValue(_)
DigitsValue(ds) ==
    IF ds = << >> THEN 0
    ELSE DigitsValue(SubSeq(ds, 1, Len(ds) - 1)) * 10 + ds[Len(ds)]

\* a cell of a numeric column as pandas.read_csv parses it
ParseFloat(c) ==
    IF c.t = "nan" \/ (c.t = "str" /\ c.s \in NaStrings) THEN NaN
    ELSE LET scale == Pow10(Len(c.frac))
             mag == c.int * scale + DigitsValue(c.frac)
         IN  Num(IF c.neg THEN 0 - mag ELSE mag, scale)

\* a cell of the phase column: a string, or not-a-number for a missing value
ParseStr(c) == IF c.t = "nan" \/ c.s \in NaStrings THEN "NaN" ELSE c.s

\* pd.read_csv("gaming_metrics.csv")
ReadCsv(text) ==
    [i \in 1..Len(text) |->
        [phase |-> ParseStr(text[i].phase),
         avg_fps |-> ParseFloat(text[i].avg_fps),
         total_stall_ms |-> ParseFloat(text[i].total_stall_ms),
         game_mbps |-> ParseFloat(text[i].game_mbps),
         attack_mbps |-> ParseFloat(text[i].attack_mbps),
         j_index |-> ParseFloat(text[i].j_index)]]

-----------------------------------------------------------------------------
\* What the remote programs can leave behind for the controller to collect

Cell(i) == Int2Num(i)

\* gaming_metrics.csv as the monitor leaves it after a run: header only (no
\* frame was ever received), complete rows, or a last row cut short
GoodRows ==
    << [fps |-> Cell(60), stall_duration_ms |-> Cell(0), bitrate_mbps |-> Cell(8)],
       [fps |-> Cell(30), stall_duration_ms |-> Cell(250), bitrate_mbps |-> Cell(4)] >>
MetricsContents == {
    [hasBitrate |-> TRUE, rows |-> <<>>],
    [hasBitrate |-> TRUE, rows |-> GoodRows],
    [hasBitrate |-> TRUE, rows |->
        << [fps |-> Cell(60), stall_duration_ms |-> Cell(0), bitrate_mbps |-> Cell(8)],
           [fps |-> Cell(30), stall_duration_ms |-> Bad, bitrate_mbps |-> Bad] >>] }

\* attack.log as iperf3 leaves it: empty, multi-stream with [SUM] lines, or
\* a [SUM] line whose rate does not parse
AttackLogContents == {
    <<>>,
    << [tag |-> "flow", unit |-> "Mbits/sec", val |-> Cell(10)],
       [tag |-> "SUM", unit |-> "Mbits/sec", val |-> Cell(30)],
       [tag |-> "SUM", unit |-> "Mbits/sec", val |-> Cell(40)] >>,
    << [tag |-> "SUM", unit |-> "Mbits/sec", val |-> Bad] >> }

\* bytes the receiver's interface takes in during the 40 s of a run: between
\* one and MaxRxChunks chunks of 25 MB
MaxRxChunks == 1
RxDeltas == {i * 25000000 : i \in 1..MaxRxChunks}

NoFile == [exists |-> FALSE, by |-> 0, hasBitrate |-> TRUE, rows |-> <<>>]
NoLog == [exists |-> FALSE, lines |-> <<>>]

-----------------------------------------------------------------------------
VARIABLES
    pc,             \* the controller's position in main()/run_experiment()
    phaseIdx,       \* index of the phase the for loop is at (0 before it)
    cur,            \* position inside a loop of kill commands
    exc,            \* the exception that is propagating, or "none"
    exitStatus,     \* the process's exit status, -1 while it runs
    loc,            \* the phase body's local variables
    final_results,  \* the list of appended PhaseResults
    report,         \* gaming_metrics.csv on the controller: the rows written
                    \* (rows), its text (csv), the verdict lines (summary)
    procs,          \* processes running on the nodes
    tc,             \* shaping discipline on the router interface
    rxBytes,        \* rx_bytes counter of the receiver's interface
    clock,          \* seconds the phase loop has slept so far
    metricsFile,    \* gaming_metrics.csv on the receiver
    attackLog,      \* attack.log on the attacker
    routerIface,    \* whether the router lists a data interface
    hist,           \* history of the run, read by the properties only
    cfg,            \* configure_routed_network's endpoint loop
    rec,            \* the MetricsRecorder object's fields
    perf,           \* the PerformanceMonitor object's fields
    lp,             \* log_periodically: its position and locals
    track,          \* the video track the consume loop reads: live or ended
    now,            \* time.time() on the monitor's host, in milliseconds
    statBytes,      \* bytes the peer connection has received so far
    snapshots,      \* rows of the monitor's CSV file, after the header
    mhist,          \* history of the monitor, read by the properties only
    relay,          \* the signaling relay: registry, handlers, connections
    plot,           \* the plotting step: the report as read back, the harms
    sig             \* the media peers: senders, handlers, lines in flight

\* the monitor programs' state (monitor_webrtc.py, monitor_receiver.py)
monvars == <<rec, perf, lp, track, now, statBytes, snapshots, mhist>>

\* the state of the other programs (signaling.py, plot_results.py,
\* gamer_webrtc.py with monitor_webrtc.py's handle_client)
auxvars == <<relay, plot, sig>>

envvars == <<procs, tc, rxBytes, clock, metricsFile, attackLog, routerIface, cfg, monvars, auxvars>>

vars == <<pc, phaseIdx, cur, exc, exitStatus, loc, final_results, report,
          envvars, hist>>

SetupPcs == {"setup", "kernel", "netcfg", "netcfg_node", "netcfg_receiver"}

\* positions inside the try block of run_experiment (lines 293-517)
TryPcs == {"for", "router_ifaces", "tc_del", "tc_add_root", "tc_add_class",
           "tc_add_leaf", "cleanup", "start_monitor", "start_server",
           "start_ping", "launch_attack", "attack_warmup", "start_gamer",
           "read_start", "run", "read_end", "stop", "tc_stats",
           "download_logs", "attack_log", "metrics", "append"}

\* the steps wrapped in their own try/except Exception
\* (variant: the snapshot-log block has no handler)
GuardedNoMetrics == {"download_logs", "attack_log"}
Guarded == {"download_logs", "attack_log", "metrics"}

InitLoc == [r_ifaces |-> FALSE, start_bytes |-> 0, end_bytes |-> 0,
            total_mbps |-> Int2Num(0), attack_throughput |-> Int2Num(0),
            game_mbps |-> Int2Num(0), r_avg_fps |-> Int2Num(0),
            r_stall_time |-> Int2Num(0)]

NoTimes == [monitor |-> -1, attack |-> -1, media |-> -1]

InitHist == [raisedAt |-> "none", failedPhase |-> 0, started |-> {},
             carried |-> {}, t |-> [i \in 1..NumPhases |-> NoTimes],
             retrFail |-> {}, collErr |-> {}, cleanupDone |-> FALSE]

\* what an earlier run that did not end cleanly leaves on the nodes
StaleProcs == {[node |-> Gamer, kind |-> "ping", phase |-> 0],
               [node |-> Receiver, kind |-> "monitor", phase |-> 0],
               [node |-> Receiver, kind |-> "iperf_server", phase |-> 0]}
StaleShaping == ApplyShaping(NoShaping, phases[NumPhases])
StaleFile == [exists |-> TRUE, by |-> 0, hasBitrate |-> TRUE, rows |-> GoodRows]

\* configure_routed_network's loop over the endpoint nodes: node is the
\* index into CfgNodes, attempt the value of the loop variable, times the
\* clock readings at which the attempts on this node began, configured the
\* nodes whose commands were all issued, exhausted those given up on
CfgNodes == <<Gamer, Attacker>>
InitCfg == [node |-> 1, attempt |-> 0, times |-> <<>>, configured |-> {},
            exhausted |-> {}]

\* a last_frame_time of None
None == -1

\* MetricsRecorder.__init__ (times in milliseconds)
InitRec == [frames_received |-> 0, last_bytes_received |-> 0,
            last_frame_time |-> None, stalls |-> 0,
            total_stall_duration |-> 0, started |-> FALSE]

\* PerformanceMonitor.__init__
InitPerf == [last_frame_time |-> None, frame_count |-> 0, stall_events |-> <<>>]

\* log_periodically sleeps 1.0 s before its first look
TickSeconds == 1
InitLp == [at |-> "sleep", wakeAt |-> TickSeconds * 1000, now |-> 0, fps |-> 0]

InitMhist == [arrivals |-> <<>>, counted |-> 0, stalled |-> {}, ticks |-> 0,
              endTick |-> -1, endRows |-> -1, windowBytes |-> <<>>]

\* signaling.py: at most MaxPeers peers connect to the relay, once each, and
\* send MaxMsgs messages between them
MaxPeers == 3
MaxMsgs == 2
Peers == 1..MaxPeers

\* a handler coroutine: at is "none" (not started), "recv" (suspended in
\* "async for message in websocket"), "send" (suspended in "await
\* conn.send(message)") or "done"; msg and target are the message and the
\* connection of the pending send; visited, size and mutated describe the
\* iterator over CONNECTED; end tells how the handler left and wasOpen
\* whether its own connection was open then
NoHandler == [at |-> "none", msg |-> << >>, target |-> 0, visited |-> {},
              size |-> 0, mutated |-> FALSE, end |-> "none",
              wasOpen |-> FALSE]

\* CONNECTED = set(); no connection yet.  conn is the state of each peer's
\* connection, inbox the messages read from it and not yet handed to its
\* handler, delivered what was sent to it, log the messages handled
InitRelay == [CONNECTED |-> {},
              conn |-> [p \in Peers |-> "none"],
              h |-> [p \in Peers |-> NoHandler],
              inbox |-> [p \in Peers |-> << >>],
              delivered |-> [p \in Peers |-> << >>],
              nsent |-> 0,
              log |-> << >>]

\* the other programs before they start
\* The media peers' signaling connections (gamer_webrtc.py run against
\* monitor_webrtc.py handle_client): one sender process per connection
MaxConns == 2
\* frames of the clip before the pipeline reports end-of-stream
ClipLen == 1
\* pipeline messages a sender's bus carries in one run
MaxEvents == 2
Conns == 1..MaxConns

\* a sender before GStreamerVideoTrack is constructed
NoTrack == [made |-> FALSE, running |-> FALSE, pipeline |-> "none",
            position |-> 0, bus |-> << >>, pump |-> "none",
            handled |-> << >>, seeks |-> 0, posted |-> 0]
InitSender == [at |-> "connect", offerSent |-> FALSE, applied |-> << >>,
               end |-> "none", track |-> NoTrack]
\* a handler that has read no line
NoOffer == [sdp |-> 0, type |-> "none"]
InitHandler == [at |-> "none", offer |-> NoOffer, answers |-> 0, end |-> "none"]
InitSig == [sender |-> [c \in Conns |-> InitSender],
            handler |-> [c \in Conns |-> InitHandler],
            toRecv |-> [c \in Conns |-> << >>],
            toSend |-> [c \in Conns |-> << >>],
            sndClosed |-> [c \in Conns |-> FALSE],
            rcvClosed |-> [c \in Conns |-> FALSE]]

NoPlot == [ran |-> FALSE, df |-> << >>, harms |-> << >>]
AuxInit ==
    /\ relay = InitRelay
    /\ plot = NoPlot
    /\ sig = InitSig

\* the monitor as constructed, before any frame and any tick
MonitorInit ==
    /\ rec = InitRec
    /\ perf = InitPerf
    /\ lp = InitLp
    /\ track = "live"
    /\ now = 0
    /\ statBytes = 0
    /\ snapshots = <<>>
    /\ mhist = InitMhist

NoReport == [written |-> FALSE, rows |-> <<>>, csv |-> <<>>, summary |-> <<>>]

\* the controller at the start of main(), on nodes that an earlier run left
\* clean or not (stale) and a router that lists a data interface or not
ControllerInit(stale, iface) ==
    /\ cfg = InitCfg
    /\ pc = "setup"
    /\ phaseIdx = 0
    /\ cur = 1
    /\ exc = "none"
    /\ exitStatus = -1
    /\ loc = InitLoc
    /\ final_results = <<>>
    /\ report = NoReport
    /\ procs = IF stale THEN StaleProcs ELSE {}
    /\ tc = IF stale THEN StaleShaping ELSE NoShaping
    /\ metricsFile = IF stale THEN StaleFile ELSE NoFile
    /\ rxBytes = 1000
    /\ clock = 0
    /\ attackLog = NoLog
    /\ routerIface = iface
    /\ hist = InitHist

Init ==
    /\ MonitorInit
    /\ AuxInit
    /\ \E stale \in BOOLEAN, iface \in BOOLEAN : ControllerInit(stale, iface)

-----------------------------------------------------------------------------
\* Exceptions.  Inside the try block an exception runs the finally block and
\* then leaves run_experiment; anywhere else it goes straight to main().

\* where an exception was raised: a setup step, a retrieval step
\* ("download"), another step of a phase, the finally block or the report
DownloadPcs == {"download_logs", "attack_log", "metrics"}
ShapingPcs == {"router_ifaces", "tc_del", "tc_add_root", "tc_add_class",
               "tc_add_leaf"}
RaisedAt ==
    IF pc \in DownloadPcs THEN "download"
    ELSE IF pc \in ShapingPcs THEN "shaping"
    ELSE IF pc \in TryPcs THEN "phase"
    ELSE pc

\* An exception raised at the current step.  It leaves the loop body for
\* good: the body's locals and final_results are never read again (neither
\* the finally block nor main() uses them), and of the history only what the
\* properties read past this point is kept.
ThrowH(kind, h, ps) ==
    /\ exc' = kind
    /\ pc' = IF pc \in TryPcs THEN "finally" ELSE "main_except"
    /\ cur' = 1
    /\ loc' = InitLoc
    /\ final_results' = <<>>
    /\ procs' = ps
    /\ clock' = 0
    /\ hist' = [InitHist EXCEPT
                    !.raisedAt = IF kind = "KeyboardInterrupt"
                                 THEN "interrupt" ELSE RaisedAt,
                    !.failedPhase = IF pc \in TryPcs /\ kind = "Exception"
                                    THEN phaseIdx ELSE h.failedPhase,
                    !.started = h.started,
                    !.cleanupDone = h.cleanupDone]
    /\ UNCHANGED <<phaseIdx, exitStatus, report, tc, rxBytes, metricsFile,
                   attackLog, routerIface, cfg, monvars, auxvars>>

Throw(kind) == ThrowH(kind, hist, procs)

\* node.execute raises (the SSH session to the node fails)
ExecFails == Throw("Exception")

CurPhase == phases[phaseIdx]

Proc(node, kind) == [node |-> node, kind |-> kind, phase |-> phaseIdx]

-----------------------------------------------------------------------------
\* run_experiment before the phases (lines 275-281)

SetupNodes ==
    /\ pc = "setup"
    /\ \/ /\ pc' = "kernel"
          /\ UNCHANGED <<phaseIdx, cur, exc, exitStatus, loc, final_results,
                         report, envvars, hist>>
       \/ ExecFails

\* install_bbrv3_kernel and the modprobe after it: the kernel is there or
\* gets installed, or the check after the reboot ends in sys.exit(1)
InstallKernel ==
    /\ pc = "kernel"
    /\ \/ /\ pc' = "netcfg"
          /\ UNCHANGED <<phaseIdx, cur, exc, exitStatus, loc, final_results,
                         report, envvars, hist>>
       \/ Throw("SystemExit")
       \/ ExecFails

\* configure_routed_network up to the endpoint loop (lines 33-45): with no
\* data interface on the router it returns at once
ConfigureNetwork ==
    /\ pc = "netcfg"
    /\ \/ /\ pc' = IF routerIface THEN "netcfg_node" ELSE "for"
          /\ UNCHANGED <<phaseIdx, cur, exc, exitStatus, loc, final_results,
                         report, envvars, hist>>
       \/ ExecFails

\* range(3)
MaxAttempts == 3
\* time.sleep(5) in the except clause
RetryDelaySeconds == 5

\* (variant: the loop variable does not advance)
NextAttemptStuck(a) == a
\* the for statement's next value of attempt
NextAttempt(a) == a + 1

\* (variant: running out of attempts raises)
OnExhaustedRaise == "raise"
\* the for loop's else clause: logger.error, nothing raised
OnExhausted == "continue"

\* leaving the loop body for node cfg.node: on to the next node, or past the
\* loop (whose locals are not read again; the nodes given up on are kept)
NextNode(c, configured, exhausted) ==
    IF c.node < Len(CfgNodes)
    THEN [InitCfg EXCEPT !.node = c.node + 1, !.configured = configured,
                         !.exhausted = exhausted]
    ELSE [InitCfg EXCEPT !.node = Len(CfgNodes) + 1, !.exhausted = exhausted]

\* one attempt on node CfgNodes[cfg.node] (lines 49-72): the commands are
\* all issued and break ends the retries; or the node lists no data
\* interface and break ends them with nothing issued; or an execute raises,
\* the except clause logs, sleeps and the loop goes to its next attempt or,
\* out of attempts, to its else clause
ConfigureNode ==
    /\ pc = "netcfg_node"
    /\ LET node == CfgNodes[cfg.node]
           began == [cfg EXCEPT !.times = Append(@, clock)]
           last == cfg.node = Len(CfgNodes)
       IN  \/ \E ifaces \in BOOLEAN :
                /\ cfg' = NextNode(began,
                               IF ifaces THEN cfg.configured \cup {node}
                               ELSE cfg.configured, cfg.exhausted)
                /\ pc' = IF last THEN "netcfg_receiver" ELSE pc
                /\ clock' = IF last THEN 0 ELSE clock
                /\ UNCHANGED <<exc, hist>>
           \/ /\ NextAttempt(cfg.attempt) < MaxAttempts
              /\ cfg' = [began EXCEPT !.attempt = NextAttempt(@)]
              /\ clock' = clock + RetryDelaySeconds
              /\ UNCHANGED <<pc, exc, hist>>
           \/ /\ NextAttempt(cfg.attempt) >= MaxAttempts
              /\ IF OnExhausted = "continue"
                 THEN /\ cfg' = NextNode(began, cfg.configured,
                                         cfg.exhausted \cup {node})
                      /\ pc' = IF last THEN "netcfg_receiver" ELSE pc
                      /\ clock' = IF last THEN 0 ELSE clock + RetryDelaySeconds
                      /\ UNCHANGED <<exc, hist>>
                 ELSE /\ cfg' = [began EXCEPT !.exhausted = @ \cup {node}]
                      /\ pc' = "main_except"
                      /\ exc' = "Exception"
                      /\ hist' = [hist EXCEPT !.raisedAt = "netcfg_node"]
                      /\ clock' = clock
    /\ UNCHANGED <<phaseIdx, cur, exitStatus, loc, final_results, report,
                   procs, tc, rxBytes, metricsFile, attackLog, routerIface,
                   monvars, auxvars>>

\* the receiver's configuration, the route cache flush on the four nodes and
\* the verification (lines 74-117): none of it is inside a try
ConfigureReceiver ==
    /\ pc = "netcfg_receiver"
    /\ \/ /\ pc' = "for"
          /\ UNCHANGED <<phaseIdx, cur, exc, exitStatus, loc, final_results,
                         report, envvars, hist>>
       \/ ExecFails

-----------------------------------------------------------------------------
\* The phase loop (lines 292-517)

\* for phase in phases
ForNext ==
    /\ pc = "for"
    /\ IF phaseIdx < NumPhases
       THEN /\ phaseIdx' = NextPhase(phaseIdx)
            /\ pc' = "router_ifaces"
            /\ loc' = InitLoc
            /\ hist' = [hist EXCEPT !.started = @ \cup {NextPhase(phaseIdx)},
                                    !.carried = procs]
       ELSE /\ pc' = "finally"
            /\ UNCHANGED <<phaseIdx, loc, hist>>
    /\ cur' = 1
    /\ UNCHANGED <<exc, exitStatus, final_results, report, envvars>>

\* r_ifaces = get_data_interfaces(router)
GetRouterIfaces ==
    /\ pc = "router_ifaces"
    /\ \/ /\ loc' = [loc EXCEPT !.r_ifaces = routerIface]
          /\ pc' = IF routerIface THEN "tc_del" ELSE "cleanup"
          /\ hist' = [hist EXCEPT !.retrFail = {}, !.collErr = {}]
          /\ UNCHANGED <<phaseIdx, cur, exc, exitStatus, final_results,
                         report, envvars>>
       \/ ExecFails

TcStep(from, to, newtc) ==
    /\ pc = from
    /\ \/ /\ tc' = newtc
          /\ pc' = to
          /\ UNCHANGED <<phaseIdx, cur, exc, exitStatus, loc, final_results,
                         report, procs, rxBytes, clock, metricsFile, attackLog,
                         routerIface, cfg, monvars, auxvars, hist>>
       \/ ExecFails

TcDel == TcStep("tc_del", "tc_add_root", TcDelRoot(tc))
TcRoot == TcStep("tc_add_root", "tc_add_class", TcAddRoot(tc))
TcClass == TcStep("tc_add_class", "tc_add_leaf", TcAddClass(tc))
\* the qdisc dump and the leaf command
TcLeaf == TcStep("tc_add_leaf", "cleanup", TcAddLeaf(tc, CurPhase))

\* "Cleanup": pkill python3 and iperf3 on gamer, receiver, attacker, sleep 2
\* one pass of the loop body for node CleanupNodes[cur]; an execute that
\* raises leaves the kills before it done
PreKill ==
    /\ pc = "cleanup"
    /\ \/ /\ procs' = PkillAll(procs, CleanupNodes[cur], CleanupPatterns)
          /\ IF cur < Len(CleanupNodes)
             THEN cur' = cur + 1 /\ pc' = pc /\ clock' = clock
             ELSE cur' = 1 /\ pc' = "start_monitor"
                  /\ clock' = clock + SettleSeconds
          /\ UNCHANGED <<phaseIdx, exc, exitStatus, loc, final_results, report,
                         tc, rxBytes, metricsFile, attackLog, routerIface, cfg, monvars, auxvars, hist>>
       \/ \E n \in 0..(Len(CleanupPatterns) - 1) :
             ThrowH("Exception", hist,
                    PkillAll(procs, CleanupNodes[cur], SubSeq(CleanupPatterns, 1, n)))

\* receiver.execute_thread(monitor_webrtc.py): never raises; the monitor comes
\* up (and truncates its output file) or it does not
StartMonitor ==
    /\ pc = "start_monitor"
    /\ \E up \in BOOLEAN :
          /\ procs' = IF up THEN procs \cup {Proc(Receiver, "monitor")} ELSE procs
          /\ metricsFile' = IF up THEN [exists |-> TRUE, by |-> phaseIdx,
                                        hasBitrate |-> TRUE, rows |-> <<>>]
                            ELSE metricsFile
    /\ hist' = [hist EXCEPT !.t[phaseIdx].monitor = clock]
    /\ pc' = "start_server"
    /\ UNCHANGED <<phaseIdx, cur, exc, exitStatus, loc, final_results, report,
                   tc, rxBytes, clock, attackLog, routerIface, cfg, monvars, auxvars>>

\* iperf3 -s on the receiver in an attack phase, then sleep 5
StartIperfServer ==
    /\ pc = "start_server"
    /\ procs' = IF CurPhase.attack
                THEN procs \cup {Proc(Receiver, "iperf_server")}
                ELSE procs
    /\ clock' = clock + MonitorWarmupSeconds
    /\ pc' = "start_ping"
    /\ UNCHANGED <<phaseIdx, cur, exc, exitStatus, loc, final_results, report,
                   tc, rxBytes, metricsFile, attackLog, routerIface, cfg, monvars, auxvars, hist>>

StartPing ==
    /\ pc = "start_ping"
    /\ procs' = procs \cup {Proc(Gamer, "ping")}
    /\ pc' = "launch_attack"
    /\ UNCHANGED <<phaseIdx, cur, exc, exitStatus, loc, final_results, report,
                   tc, rxBytes, clock, metricsFile, attackLog, routerIface, cfg, monvars, auxvars, hist>>

\* "Start Attack": rm -f attack.log, then the iperf3 client in the background
LaunchAttack ==
    /\ pc = "launch_attack"
    /\ \/ /\ IF CurPhase.attack
             THEN /\ \E up \in BOOLEAN :
                       /\ procs' = IF up
                                   THEN procs \cup {Proc(Attacker, "iperf_client")}
                                   ELSE procs
                       /\ attackLog' = [exists |-> up, lines |-> <<>>]
                  /\ hist' = [hist EXCEPT !.t[phaseIdx].attack = clock]
             ELSE UNCHANGED <<procs, attackLog, hist>>
          /\ pc' = "attack_warmup"
          /\ UNCHANGED <<phaseIdx, cur, exc, exitStatus, loc, final_results,
                         report, tc, rxBytes, clock, metricsFile, routerIface, cfg, monvars, auxvars>>
       \/ CurPhase.attack /\ ExecFails

\* time.sleep(5) of either branch
AttackWarmupSkipped ==
    /\ pc = "attack_warmup"
    /\ pc' = "start_gamer"
    /\ UNCHANGED <<phaseIdx, cur, exc, exitStatus, loc, final_results, report,
                   envvars, hist>>
AttackWarmup ==
    /\ pc = "attack_warmup"
    /\ clock' = clock + WarmupSeconds
    /\ pc' = "start_gamer"
    /\ UNCHANGED <<phaseIdx, cur, exc, exitStatus, loc, final_results, report,
                   procs, tc, rxBytes, metricsFile, attackLog, routerIface, cfg, monvars, auxvars, hist>>

StartGamer ==
    /\ pc = "start_gamer"
    /\ \E up \in BOOLEAN :
          procs' = IF up THEN procs \cup {Proc(Gamer, "sender")} ELSE procs
    /\ hist' = [hist EXCEPT !.t[phaseIdx].media = clock]
    /\ pc' = "read_start"
    /\ UNCHANGED <<phaseIdx, cur, exc, exitStatus, loc, final_results, report,
                   tc, rxBytes, clock, metricsFile, attackLog, routerIface, cfg, monvars, auxvars>>

\* get_data_interfaces(receiver)[0] and int(cat .../rx_bytes): raises when the
\* session fails, no interface is listed or the output is no integer
ReadStartBytes ==
    /\ pc = "read_start"
    /\ \/ /\ loc' = [loc EXCEPT !.start_bytes = rxBytes]
          /\ pc' = "run"
          /\ UNCHANGED <<phaseIdx, cur, exc, exitStatus, final_results, report,
                         envvars, hist>>
       \/ ExecFails

\* time.sleep(40): meanwhile the interface counter grows, a running monitor
\* writes its snapshot rows (none without a sender) and a running iperf3
\* client writes its log
RunSleep ==
    /\ pc = "run"
    /\ clock' = clock + RunSeconds
    /\ \E delta \in RxDeltas : rxBytes' = rxBytes + delta
    /\ IF Proc(Receiver, "monitor") \in procs
       THEN \E c \in MetricsContents :
               /\ Proc(Gamer, "sender") \notin procs => c.rows = <<>>
               /\ metricsFile' = [exists |-> TRUE, by |-> phaseIdx,
                                  hasBitrate |-> c.hasBitrate, rows |-> c.rows]
       ELSE metricsFile' = metricsFile
    /\ IF Proc(Attacker, "iperf_client") \in procs
       THEN \E lines \in AttackLogContents :
               attackLog' = [exists |-> TRUE, lines |-> lines]
       ELSE attackLog' = attackLog
    /\ pc' = "read_end"
    /\ UNCHANGED <<phaseIdx, cur, exc, exitStatus, loc, final_results, report,
                   procs, tc, routerIface, cfg, monvars, auxvars, hist>>

ReadEndBytes ==
    /\ pc = "read_end"
    /\ \/ /\ loc' = [loc EXCEPT !.end_bytes = rxBytes]
          /\ pc' = "stop"
          /\ UNCHANGED <<phaseIdx, cur, exc, exitStatus, final_results, report,
                         envvars, hist>>
       \/ ExecFails

RECURSIVE PkillSeq(_, _)
PkillSeq(ps, cmds) ==
    IF cmds = <<>> THEN ps
    ELSE PkillSeq(Pkill(ps, Head(cmds)[1], Head(cmds)[2]), Tail(cmds))

\* "Stop Everything"; an execute that raises leaves the kills before it done
StopEverything ==
    /\ pc = "stop"
    /\ \/ /\ procs' = PkillSeq(procs, StopCmds(CurPhase))
          /\ pc' = "tc_stats"
          /\ UNCHANGED <<phaseIdx, cur, exc, exitStatus, loc, final_results,
                         report, tc, rxBytes, clock, metricsFile, attackLog, routerIface, cfg, monvars, auxvars, hist>>
       \/ \E n \in 0..(Len(StopCmds(CurPhase)) - 1) :
             ThrowH("Exception", hist,
                    PkillSeq(procs, SubSeq(StopCmds(CurPhase), 1, n)))

\* the qdisc statistics dump (when a router interface was found), sleep 2
TcStatsAfter ==
    /\ pc = "tc_stats"
    /\ \/ /\ clock' = clock + DrainSeconds
          /\ pc' = "download_logs"
          /\ UNCHANGED <<phaseIdx, cur, exc, exitStatus, loc, final_results,
                         report, procs, tc, rxBytes, metricsFile, attackLog, routerIface, cfg, monvars, auxvars, hist>>
       \/ loc.r_ifaces /\ ExecFails

\* A download that raises: caught where the step has its own handler
DownloadFails(what, newloc, to) ==
    IF pc \in Guarded
    THEN /\ loc' = newloc
         /\ pc' = to
         /\ hist' = [hist EXCEPT !.retrFail = @ \cup {<<phaseIdx, what>>}]
         /\ UNCHANGED <<phaseIdx, cur, exc, exitStatus, final_results, report,
                        envvars>>
    ELSE ThrowH("Exception",
                [hist EXCEPT !.retrFail = @ \cup {<<phaseIdx, what>>}], procs)

\* total_mbps, then the ping and debug logs
DownloadLogs ==
    /\ pc = "download_logs"
    /\ LET l == [loc EXCEPT !.total_mbps =
                     TotalMbps(loc.start_bytes, loc.end_bytes)]
       IN  \/ /\ loc' = l
              /\ pc' = "attack_log"
              /\ UNCHANGED <<phaseIdx, cur, exc, exitStatus, final_results,
                             report, envvars, hist>>
           \/ DownloadFails("logs", l, "attack_log")

\* "Attack Throughput (iperf3)"
ReadAttackLog ==
    /\ pc = "attack_log"
    /\ IF ~CurPhase.attack
       THEN /\ pc' = "metrics"
            /\ UNCHANGED <<phaseIdx, cur, exc, exitStatus, loc, final_results,
                           report, envvars, hist>>
       ELSE \/ /\ attackLog.exists
               /\ loc' = [loc EXCEPT !.attack_throughput =
                              AttackThroughput(attackLog.lines)]
               /\ pc' = "metrics"
               /\ UNCHANGED <<phaseIdx, cur, exc, exitStatus, final_results,
                              report, envvars, hist>>
            \/ DownloadFails("attack",
                             [loc EXCEPT !.attack_throughput = NaN], "metrics")

\* "Game Throughput (Derived)" and "Game Quality (FPS/Stalls)"
ReadGameMetrics ==
    /\ pc = "metrics"
    /\ LET game == PyMax0(NumSub(loc.total_mbps, loc.attack_throughput))
           Reduced(ok) ==
               LET r == ReduceMetrics(metricsFile, ok, game)
               IN  [loc EXCEPT !.game_mbps = r.game_mbps,
                               !.r_avg_fps = r.r_avg_fps,
                               !.r_stall_time = r.r_stall_time]
           Err(ok) == IF CollectionError(metricsFile, ok)
                      THEN [hist EXCEPT !.collErr = @ \cup {phaseIdx}]
                      ELSE hist
       IN  \/ /\ metricsFile.exists
              /\ loc' = Reduced(TRUE)
              /\ hist' = Err(TRUE)
              /\ pc' = "append"
              /\ UNCHANGED <<phaseIdx, cur, exc, exitStatus, final_results,
                             report, envvars>>
           \/ /\ pc \in Guarded
              /\ loc' = Reduced(FALSE)
              /\ hist' = [Err(FALSE) EXCEPT
                             !.retrFail = @ \cup {<<phaseIdx, "metrics">>}]
              /\ pc' = "append"
              /\ UNCHANGED <<phaseIdx, cur, exc, exitStatus, final_results,
                             report, envvars>>
           \/ /\ pc \notin Guarded
              /\ ThrowH("Exception",
                        [hist EXCEPT
                             !.retrFail = @ \cup {<<phaseIdx, "metrics">>}],
                        procs)

\* final_results.append({...})
\* (variant: a phase without measured frames is left out)
AppendResultSkipEmpty(results, r) ==
    IF IsZero(r.avg_fps) THEN results ELSE Append(results, r)
AppendResult(results, r) == Append(results, r)

\* the fairness index is computed first: a division that raises there
\* leaves the loop body like any other exception
RecordResult ==
    /\ pc = "append"
    /\ IF Raises(PhaseResult(CurPhase, loc).j_index)
       THEN Throw("ZeroDivisionError")
       ELSE /\ final_results' =
                   AppendResult(final_results, PhaseResult(CurPhase, loc))
            /\ pc' = "for"
            /\ UNCHANGED <<phaseIdx, cur, exc, exitStatus, loc, report,
                           envvars, hist>>

-----------------------------------------------------------------------------
\* finally (lines 519-523): one pass of the loop body for node
\* CleanupNodes[cur]
Finally ==
    /\ pc = "finally"
    /\ \/ /\ procs' = PkillAll(procs, CleanupNodes[cur], CleanupPatterns)
          /\ IF cur < Len(CleanupNodes)
             THEN cur' = cur + 1 /\ pc' = pc /\ hist' = hist
             ELSE /\ cur' = 1
                  /\ pc' = IF exc = "none" THEN "report" ELSE "main_except"
                  /\ hist' = [hist EXCEPT !.cleanupDone = TRUE]
          /\ UNCHANGED <<phaseIdx, exc, exitStatus, loc, final_results, report,
                         tc, rxBytes, clock, metricsFile, attackLog, routerIface, cfg, monvars, auxvars>>
       \/ \E n \in 0..(Len(CleanupPatterns) - 1) :
             ThrowH("Exception", hist,
                    PkillAll(procs, CleanupNodes[cur], SubSeq(CleanupPatterns, 1, n)))

\* (variant: the quotient is taken whatever the baseline is)
FpsDropUnguarded(baseline, wired) ==
    NumDiv(NumSub(baseline.avg_fps, wired.avg_fps), baseline.avg_fps)
\* fps_drop = (baseline - wired) / baseline if baseline > 0 else 0
FpsDrop(baseline, wired) ==
    IF NumGt(baseline.avg_fps, Int2Num(0))
    THEN NumDiv(NumSub(baseline.avg_fps, wired.avg_fps), baseline.avg_fps)
    ELSE Int2Num(0)

\* (variant: only the frame-rate drop is looked at)
ActivatedFpsOnly(baseline, wired) ==
    NumGt(FpsDrop(baseline, wired), Num(3, 10))
\* "if fps_drop > 0.3 or wired['total_stall_ms'] > 1000": the ACTIVATED line
Activated(baseline, wired) ==
    \/ NumGt(FpsDrop(baseline, wired), Num(3, 10))
    \/ NumGt(wired.total_stall_ms, Int2Num(1000))

\* (variant: a stall-free baseline always gives 0)
HarmFactorNoSentinel(baseline, wired) ==
    IF NumGt(baseline.total_stall_ms, Int2Num(0))
    THEN NumDiv(wired.total_stall_ms, baseline.total_stall_ms)
    ELSE Int2Num(0)
\* "Harm Factor (Stall Ratio)"
HarmFactor(baseline, wired) ==
    IF NumGt(baseline.total_stall_ms, Int2Num(0))
    THEN NumDiv(wired.total_stall_ms, baseline.total_stall_ms)
    ELSE IF NumGt(wired.total_stall_ms, Int2Num(0)) THEN Int2Num(999)
    ELSE Int2Num(0)

\* the lines logged under "if len(final_results) >= 2"
Summary(results) ==
    IF Len(results) >= 2
    THEN << [activated |-> Activated(results[1], results[2]),
             harm_factor |-> HarmFactor(results[1], results[2])] >>
    ELSE << >>

\* a division of the lines after the CSV raises
SummaryRaises(results) ==
    /\ Len(results) >= 2
    /\ \/ Raises(FpsDrop(results[1], results[2]))
       \/ Raises(HarmFactor(results[1], results[2]))
       \/ Len(results) >= 3 /\ Raises(FpsDrop(results[1], results[3]))

\* "Final Report" (lines 525-561) and the normal return through main(); the
\* CSV is written before the verdict lines are computed
Report ==
    /\ pc = "report"
    /\ \/ IF SummaryRaises(final_results)
          THEN /\ report' = [written |-> TRUE, rows |-> final_results,
                             csv |-> WriteCsv(final_results),
                             summary |-> << >>]
               /\ exc' = "ZeroDivisionError"
               /\ pc' = "main_except"
               /\ hist' = [hist EXCEPT !.raisedAt = "report"]
               /\ UNCHANGED <<phaseIdx, cur, exitStatus, loc, final_results,
                              envvars>>
          ELSE /\ report' = [written |-> TRUE, rows |-> final_results,
                             csv |-> WriteCsv(final_results),
                             summary |-> Summary(final_results)]
               /\ pc' = "exited"
               /\ exitStatus' = 0
               /\ UNCHANGED <<phaseIdx, cur, exc, loc, final_results, envvars,
                              hist>>
       \/ ExecFails

\* main(): except Exception logs and calls sys.exit(1); SystemExit(1) passes
\* through with its status; an unhandled KeyboardInterrupt ends the
\* interpreter with the status of a SIGINT death
MainExcept ==
    /\ pc = "main_except"
    /\ exitStatus' = IF exc = "KeyboardInterrupt" THEN 130 ELSE 1
    /\ pc' = "exited"
    /\ UNCHANGED <<phaseIdx, cur, exc, loc, final_results, report, envvars, hist>>

\* the operator interrupts the run (KeyboardInterrupt at the current step)
Interrupt ==
    /\ pc \in SetupPcs \cup TryPcs \cup {"finally", "report"}
    /\ Throw("KeyboardInterrupt")

Next ==
    \/ SetupNodes \/ InstallKernel
    \/ ConfigureNetwork \/ ConfigureNode \/ ConfigureReceiver
    \/ ForNext \/ GetRouterIfaces
    \/ TcDel \/ TcRoot \/ TcClass \/ TcLeaf
    \/ PreKill \/ StartMonitor \/ StartIperfServer \/ StartPing
    \/ LaunchAttack \/ AttackWarmup \/ StartGamer
    \/ ReadStartBytes \/ RunSleep \/ ReadEndBytes \/ StopEverything
    \/ TcStatsAfter \/ DownloadLogs \/ ReadAttackLog \/ ReadGameMetrics
    \/ RecordResult \/ Finally \/ Report \/ MainExcept \/ Interrupt

Spec == Init /\ [][Next]_vars

-----------------------------------------------------------------------------
\* plot_results.py, run on the controller's directory after the experiment

\* the variables the plotting step does not touch
noplot == <<pc, phaseIdx, cur, exc, exitStatus, loc, final_results, report,
            procs, tc, rxBytes, clock, metricsFile, attackLog, routerIface,
            hist, cfg, monvars, relay, sig>>

\* (variant: the two branches of the stall-free baseline are swapped)
PlotHarmSwapped(base_stall, stall) ==
    IF NumGt(base_stall, Int2Num(0)) THEN NumDiv(stall, base_stall)
    ELSE IF IsZero(stall) THEN Int2Num(999) ELSE Int2Num(0)
\* "harm = ..." of plot_harm_factor for one row
PlotHarm(base_stall, stall) ==
    IF NumGt(base_stall, Int2Num(0)) THEN NumDiv(stall, base_stall)
    ELSE IF IsZero(stall) THEN Int2Num(0) ELSE Int2Num(999)

RECURSIVE SelectRows(_, _)
SelectRows(df, baseline) ==
    IF df = << >> THEN << >>
    ELSE (IF (Head(df).phase = "baseline") = baseline THEN << Head(df) >>
          ELSE << >>) \o SelectRows(Tail(df), baseline)

\* plot_harm_factor: the phases and harms lists (empty when the report has
\* no baseline row)
PlotHarmFactor(df) ==
    LET baseline == SelectRows(df, TRUE)
        others == SelectRows(df, FALSE)
    IN  IF baseline = << >> THEN << >>
        ELSE [i \in 1..Len(others) |->
                 [phase |-> others[i].phase,
                  harm |-> PlotHarm(baseline[1].total_stall_ms,
                                    others[i].total_stall_ms)]]

\* the plotting step reads the report that the controller wrote
PlotResults ==
    /\ report.written
    /\ ~plot.ran
    /\ LET df == ReadCsv(report.csv)
       IN  plot' = [ran |-> TRUE, df |-> df, harms |-> PlotHarmFactor(df)]
    /\ UNCHANGED noplot

-----------------------------------------------------------------------------
\* The reduction of a phase's artifacts and the final report on their own
\* (run_experiment_only.py:384-561): the controller where it enters them,
\* over more artifacts than one pass through the phases leaves behind.

\* the longest snapshot log and the largest rate (Mbit/s) that are drawn
MaxRows == 2
MaxMbps == 40

\* snapshot rows: a full window of 60 frames, or one of 30 frames with a
\* stall of 250 ms, at 5 or 20 Mbit/s
SnapshotRows ==
    {[fps |-> Cell(f), stall_duration_ms |-> Cell(IF f < 60 THEN 250 ELSE 0),
      bitrate_mbps |-> Cell(r)] : f \in {30, 60}, r \in {5, 20}}

\* a one-row snapshot log of bitrate a, a one-line iperf3 log of rate b
RateLog(a) ==
    [hasBitrate |-> TRUE,
     rows |-> << [fps |-> Cell(60), stall_duration_ms |-> Cell(0),
                  bitrate_mbps |-> Cell(a)] >>]
RateAttackLog(b) ==
    << [tag |-> "SUM", unit |-> "Mbits/sec", val |-> Cell(b)] >>

\* snapshot logs written with or without the bitrate_mbps column, and one
\* whose only row carries a negative bitrate
SnapshotLogs ==
    MetricsContents \cup {RateLog(-5)} \cup
    {[hasBitrate |-> b, rows |-> r] :
        b \in BOOLEAN, r \in UNION {[1..n -> SnapshotRows] : n \in 0..MaxRows}}

\* iperf3 logs: those above, per-flow lines only, a rate in Kbits/sec, a
\* lone [SUM] line of 20 Mbits/sec, and lines without any rate
AttackLogs ==
    AttackLogContents \cup
    { << [tag |-> "flow", unit |-> "Mbits/sec", val |-> Cell(10)],
         [tag |-> "flow", unit |-> "Mbits/sec", val |-> Cell(20)] >>,
      << [tag |-> "SUM", unit |-> "Kbits/sec", val |-> Cell(2500)] >>,
      << [tag |-> "SUM", unit |-> "Mbits/sec", val |-> Cell(20)] >>,
      << [tag |-> "other", unit |-> "none", val |-> Bad] >> }

\* the artifacts of a phase: [file, log]
Artifacts(phase) ==
    IF phase.attack
    THEN {[file |-> f, log |-> [exists |-> TRUE, lines |-> l]] :
              f \in SnapshotLogs, l \in AttackLogs}
         \cup {[file |-> RateLog(a),
                log |-> [exists |-> TRUE, lines |-> RateAttackLog(b)]] :
                   a \in 0..MaxMbps, b \in 0..MaxMbps}
    ELSE {[file |-> f, log |-> NoLog] : f \in SnapshotLogs}

\* bytes through the receiver's interface in the 40 s: 5 or 40 Mbit/s
RxTotals == {25000000, 200000000}

\* avg_fps and total_stall_ms of the rows the report compares
FpsValues == {0, 30, 40, 42, 60}
StallValues == {0, 100, 500, 1000, 1500}

ResultRow(phase, fps, stall) ==
    [phase |-> phase.name, avg_fps |-> Cell(fps), total_stall_ms |-> Cell(stall),
     game_mbps |-> Cell(5), attack_mbps |-> Cell(0),
     j_index |-> JainIndex(phase, Cell(5), Cell(0))]

\* a row of the third phase: 22.5 fps, 5 against 35 Mbit/s, fairness 0.64
LossyRow ==
    [phase |-> phases[3].name, avg_fps |-> Num(45, 2),
     total_stall_ms |-> Cell(250), game_mbps |-> Cell(5),
     attack_mbps |-> Cell(35), j_index |-> Num(16, 25)]

\* the rows of the phases before phase k
EarlierResults(k) == [i \in 1..(k - 1) |-> ResultRow(phases[i], 60, 0)]

\* the controller when phase k is about to reduce its artifacts: the byte
\* counters are read, the processes are stopped
AtReduction(k, art, total) ==
    /\ pc = "download_logs"
    /\ phaseIdx = k
    /\ loc = [InitLoc EXCEPT !.r_ifaces = TRUE, !.start_bytes = 1000,
                             !.end_bytes = 1000 + total]
    /\ rxBytes = 1000 + total
    /\ final_results = EarlierResults(k)
    /\ metricsFile = [exists |-> TRUE, by |-> k,
                      hasBitrate |-> art.file.hasBitrate,
                      rows |-> art.file.rows]
    /\ attackLog = art.log
    /\ tc = ApplyShaping(NoShaping, phases[k])
    /\ hist = [InitHist EXCEPT !.started = 1..k]

\* the controller after the finally block of a run whose first two phases
\* recorded the given frame rates and stall totals
AtReport(f1, s1, f2, s2) ==
    /\ pc = "report"
    /\ phaseIdx = NumPhases
    /\ loc = [InitLoc EXCEPT !.r_ifaces = TRUE]
    /\ rxBytes = 1000
    /\ final_results = << ResultRow(phases[1], f1, s1),
                          ResultRow(phases[2], f2, s2),
                          LossyRow >>
    /\ metricsFile = NoFile
    /\ attackLog = NoLog
    /\ tc = ApplyShaping(NoShaping, phases[NumPhases])
    /\ hist = [InitHist EXCEPT !.started = 1..NumPhases, !.cleanupDone = TRUE]

DeriveInit ==
    /\ MonitorInit
    /\ AuxInit
    /\ cfg = InitCfg
    /\ cur = 1
    /\ exc = "none"
    /\ exitStatus = -1
    /\ report = NoReport
    /\ procs = {}
    /\ clock = 0
    /\ routerIface = TRUE
    /\ \/ \E k \in 1..NumPhases, total \in RxTotals :
             \E art \in Artifacts(phases[k]) : AtReduction(k, art, total)
       \/ \E f1 \in FpsValues, f2 \in FpsValues,
             s1 \in StallValues, s2 \in StallValues : AtReport(f1, s1, f2, s2)

DeriveNext ==
    \/ DownloadLogs \/ ReadAttackLog \/ ReadGameMetrics
    \/ RecordResult \/ Report \/ PlotResults

DeriveSpec == DeriveInit /\ [][DeriveNext]_vars

-----------------------------------------------------------------------------
\* The monitors on the receiver: monitor_webrtc.py (MetricsRecorder, fed by
\* the consume loop and drained by log_periodically, both coroutines of one
\* event loop) and monitor_receiver.py (PerformanceMonitor, fed by the pad
\* probe).  Times are in milliseconds.

\* the variables the monitors do not touch: the controller's and the other
\* programs'
ctlvars == <<pc, phaseIdx, cur, exc, exitStatus, loc, final_results, report,
             procs, tc, rxBytes, clock, metricsFile, attackLog, routerIface,
             hist, cfg, auxvars>>

\* the clock advances in steps of StepMs, MaxSteps times at most; at most
\* MaxFrames frames arrive; between two statistics queries the connection
\* receives nothing or ChunkBytes
StepMs == 200
MaxSteps == 10
MaxFrames == 3
ChunkBytes == 125000

\* "inter_frame_time > 0.2" and "delta_ms > 100"
StallThresholdMs == 200
PerfStallThresholdMs == 100

\* (variant: a gap equal to the threshold counts as a stall)
IsStallAtLeast(gap, threshold) == gap >= threshold
\* a gap is a stall when it exceeds the threshold
IsStall(gap, threshold) == gap > threshold

\* (variant: the first frame is measured against the start of the recorder)
UpdateFromStart(r, t) ==
    LET inter == t - (IF r.last_frame_time = None THEN 0 ELSE r.last_frame_time)
        stall == IsStall(inter, StallThresholdMs)
    IN  [r EXCEPT !.started = TRUE,
                  !.frames_received = @ + 1,
                  !.stalls = IF stall THEN @ + 1 ELSE @,
                  !.total_stall_duration = IF stall THEN @ + inter ELSE @,
                  !.last_frame_time = t]

\* MetricsRecorder.update at time t
Update(r, t) ==
    IF r.last_frame_time = None
    THEN [r EXCEPT !.started = TRUE, !.last_frame_time = t]
    ELSE LET inter_frame_time == t - r.last_frame_time
             stall == IsStall(inter_frame_time, StallThresholdMs)
         IN  [r EXCEPT !.started = TRUE,
                       !.frames_received = @ + 1,
                       !.stalls = IF stall THEN @ + 1 ELSE @,
                       !.total_stall_duration =
                            IF stall THEN @ + inter_frame_time ELSE @,
                       !.last_frame_time = t]

\* PerformanceMonitor.on_frame at time t (the CSV row and the console line
\* are derived from these fields and written nowhere else)
OnFrame(p, t) ==
    LET frame_count == p.frame_count + 1
        delta_ms == IF p.last_frame_time # None THEN t - p.last_frame_time ELSE 0
        is_stall == p.last_frame_time # None
                    /\ IsStall(delta_ms, PerfStallThresholdMs)
    IN  [p EXCEPT !.frame_count = frame_count,
                  !.stall_events =
                       IF is_stall
                       THEN Append(@, [duration_ms |-> delta_ms,
                                       frame |-> frame_count])
                       ELSE @,
                  !.last_frame_time = t]

\* a frame of the stream reaches the receiver: the consume loop's
\* track.recv() returns and it calls metrics.update(); the pad probe calls
\* monitor.on_frame()
FrameArrives ==
    /\ track = "live"
    /\ Len(mhist.arrivals) < MaxFrames
    /\ rec' = Update(rec, now)
    /\ perf' = OnFrame(perf, now)
    /\ mhist' = [mhist EXCEPT
                    !.arrivals = Append(@, now),
                    !.counted = @ + (rec'.frames_received - rec.frames_received),
                    !.stalled = IF rec'.stalls > rec.stalls
                                THEN @ \cup {Len(mhist.arrivals) + 1} ELSE @]
    /\ UNCHANGED <<lp, track, now, statBytes, snapshots, ctlvars>>

\* track.recv() raises (the track ended or failed): the consume loop logs a
\* warning and breaks
TrackEnds ==
    /\ track = "live"
    /\ track' = "ended"
    /\ mhist' = [mhist EXCEPT
                    !.endTick = mhist.ticks,
                    !.endRows = Len(snapshots) + (IF lp.at = "stats" THEN 1 ELSE 0)]
    /\ UNCHANGED <<rec, perf, lp, now, statBytes, snapshots, ctlvars>>

\* time passes while log_periodically sleeps
Advance ==
    /\ lp.at = "sleep"
    /\ now < lp.wakeAt
    /\ now + StepMs <= MaxSteps * StepMs
    /\ now' = now + StepMs
    /\ UNCHANGED <<rec, perf, lp, track, statBytes, snapshots, mhist, ctlvars>>

\* log_periodically wakes from asyncio.sleep(1.0): before the first frame it
\* goes back to sleep; otherwise it reads the clock and the frame counter and
\* awaits pc.getStats()
TickWake ==
    /\ lp.at = "sleep"
    /\ now >= lp.wakeAt
    /\ lp' = IF ~rec.started
             THEN [lp EXCEPT !.wakeAt = now + TickSeconds * 1000]
             ELSE [lp EXCEPT !.at = "stats", !.now = now,
                             !.fps = rec.frames_received]
    /\ mhist' = [mhist EXCEPT !.ticks = @ + 1]
    /\ UNCHANGED <<rec, perf, track, now, statBytes, snapshots, ctlvars>>

\* what pc.getStats() can report with b bytes received: the inbound-rtp
\* report's bytesReceived, only the transport report's, only a packet count,
\* or nothing
StatsReports(b) ==
    { [inbound |-> b, transport |-> b, packets |-> b \div 1200],
      [inbound |-> 0, transport |-> b, packets |-> b \div 1200],
      [inbound |-> 0, transport |-> 0, packets |-> b \div 1200],
      [inbound |-> 0, transport |-> 0, packets |-> 0] }

\* current_bytes by the three strategies
CurrentBytes(stats, fps) ==
    IF stats.inbound > 0 THEN stats.inbound
    ELSE IF stats.transport > 0 THEN stats.transport
    ELSE IF fps > 0 /\ stats.packets > 0 THEN stats.packets * 1200
    ELSE 0

\* "Calculate Mbps"
Bitrate(current_bytes, last_bytes_received) ==
    IF last_bytes_received > 0
    THEN Num((current_bytes - last_bytes_received) * 8, 1000000)
    ELSE Int2Num(0)

\* pc.getStats() returns: the bitrate is computed, the counters are reset
\* and the row is appended (mhist.windowBytes notes the bytes the connection
\* received since the previous query)
TickEmit ==
    /\ lp.at = "stats"
    /\ \E grew \in BOOLEAN :
          /\ statBytes' = statBytes + (IF grew THEN ChunkBytes ELSE 0)
          /\ \E stats \in StatsReports(statBytes') :
                LET current_bytes == CurrentBytes(stats, lp.fps)
                    bitrate == Bitrate(current_bytes, rec.last_bytes_received)
                IN  /\ snapshots' = Append(snapshots,
                            [timestamp |-> lp.now,
                             fps |-> lp.fps,
                             stall_duration_ms |-> rec.total_stall_duration,
                             bitrate_mbps |-> bitrate])
                    /\ rec' = [rec EXCEPT
                                  !.last_bytes_received = current_bytes,
                                  !.frames_received = 0,
                                  !.total_stall_duration = 0,
                                  !.stalls = 0]
    /\ lp' = [InitLp EXCEPT !.wakeAt = now + TickSeconds * 1000]
    /\ mhist' = [mhist EXCEPT !.windowBytes = Append(@, statBytes' - statBytes)]
    /\ UNCHANGED <<perf, track, now, ctlvars>>

MonInit ==
    /\ MonitorInit
    /\ AuxInit
    /\ ControllerInit(FALSE, TRUE)

MonNext == FrameArrives \/ TrackEnds \/ Advance \/ TickWake \/ TickEmit

MonSpec == MonInit /\ [][MonNext]_vars

-----------------------------------------------------------------------------
\* The signaling relay (signaling.py).  Every connection runs handler() as a
\* coroutine of one event loop; a coroutine runs until it awaits, so other
\* handlers run only while this one is suspended in "async for" or in
\* "await conn.send(message)".

\* the variables the relay does not touch
norelay == <<pc, phaseIdx, cur, exc, exitStatus, loc, final_results, report,
             procs, tc, rxBytes, clock, metricsFile, attackLog, routerIface,
             hist, cfg, monvars, plot, sig>>

\* CONNECTED changed while handlers other than p were inside their for loop
MarkMutated(h, p) ==
    [q \in Peers |-> IF q # p /\ h[q].at = "send"
                     THEN [h[q] EXCEPT !.mutated = TRUE] ELSE h[q]]

\* handler p leaves through "finally: CONNECTED.remove(websocket)"; the
\* server then closes its connection
ExitHandler(r, p, why) ==
    [r EXCEPT !.CONNECTED = @ \ {p},
              !.conn[p] = "closed",
              !.h = [MarkMutated(r.h, p) EXCEPT
                        ![p] = [NoHandler EXCEPT !.at = "done", !.end = why,
                                                !.wasOpen = r.conn[p] = "open"]]]

\* The for statement of handler p asks the set iterator for its next
\* element, until a connection other than its own comes up and it suspends
\* in conn.send.  A set whose size differs from the one the iterator started
\* with raises RuntimeError ("Set changed size during iteration"), which
\* the except clause does not catch.  An iterator over an unchanged set
\* yields every element once; over a set that changed and is back at its
\* size it yields what it finds in the table past its position: any of the
\* unvisited elements, or nothing more.
IterNext(r, p) ==
    LET hp == r.h[p]
        rest == (r.CONNECTED \ hp.visited) \ {p}
        Stop == [r EXCEPT !.h[p] = [NoHandler EXCEPT !.at = "recv"]]
        Go(t) == [r EXCEPT !.h[p] = [hp EXCEPT !.at = "send", !.target = t,
                                               !.visited = @ \cup {t}]]
    IN  IF Cardinality(r.CONNECTED) # hp.size
        THEN {ExitHandler(r, p, "RuntimeError")}
        ELSE {Go(t) : t \in rest}
             \cup (IF rest = {} \/ hp.mutated THEN {Stop} ELSE {})

\* a peer connects: handler() starts, registers the connection and suspends
\* waiting for its first message
RelayConnect ==
    /\ \E p \in Peers :
          /\ relay.conn[p] = "none"
          /\ relay' = [relay EXCEPT
                          !.conn[p] = "open",
                          !.CONNECTED = @ \cup {p},
                          !.h = [MarkMutated(relay.h, p) EXCEPT
                                    ![p] = [NoHandler EXCEPT !.at = "recv"]]]
    /\ UNCHANGED norelay

\* a connected peer sends the relay a message: its n-th is <<p, n>>
RelayClientSends ==
    /\ relay.nsent < MaxMsgs
    /\ \E p \in Peers :
          /\ relay.conn[p] = "open"
          /\ relay' = [relay EXCEPT
                          !.nsent = @ + 1,
                          !.inbox[p] = Append(@, <<p, relay.nsent + 1>>)]
    /\ UNCHANGED norelay

\* a peer's connection closes (the peer leaves or the transport fails);
\* its handler learns of it when it next waits for a message
RelayPeerCloses ==
    /\ \E p \in Peers :
          /\ relay.conn[p] = "open"
          /\ relay' = [relay EXCEPT !.conn[p] = "closed"]
    /\ UNCHANGED norelay

\* "async for message in websocket" resumes handler p: with the next
\* message, which it starts to broadcast, or with the end of the connection
RelayReceive ==
    /\ \E p \in Peers :
          /\ relay.h[p].at = "recv"
          /\ IF relay.inbox[p] # << >>
             THEN LET m == Head(relay.inbox[p])
                      r == [relay EXCEPT
                               !.inbox[p] = Tail(@),
                               !.log = Append(@, [from |-> p, msg |-> m,
                                                  audience |-> relay.CONNECTED \ {p}]),
                               !.h[p] = [NoHandler EXCEPT
                                            !.at = "iter", !.msg = m,
                                            !.size = Cardinality(relay.CONNECTED)]]
                  IN  relay' \in IterNext(r, p)
             ELSE /\ relay.conn[p] = "closed"
                  /\ relay' = ExitHandler(relay, p, "closed")
    /\ UNCHANGED norelay

\* "await conn.send(message)" resumes handler p: the message went out, or
\* the target's connection is closed and send raises ConnectionClosed, which
\* p's own except clause catches; then the for statement goes on
RelaySendReturns ==
    /\ \E p \in Peers :
          /\ relay.h[p].at = "send"
          /\ LET t == relay.h[p].target
             IN  IF relay.conn[t] = "open"
                 THEN relay' \in IterNext(
                          [relay EXCEPT !.delivered[t] =
                               Append(@, [from |-> p, msg |-> relay.h[p].msg])],
                          p)
                 ELSE relay' = ExitHandler(relay, p, "ConnectionClosed")
    /\ UNCHANGED norelay

RelayInit ==
    /\ MonitorInit
    /\ AuxInit
    /\ ControllerInit(FALSE, TRUE)

RelayNext ==
    \/ RelayConnect \/ RelayClientSends \/ RelayPeerCloses
    \/ RelayReceive \/ RelaySendReturns

RelaySpec == RelayInit /\ [][RelayNext]_vars

-----------------------------------------------------------------------------
\* The offer/answer exchange and the sender's pipeline: gamer_webrtc.py
\* (run, GStreamerVideoTrack) and monitor_webrtc.py (handle_client).  A
\* connection c joins sender c to the handler task the receiver starts for it.

\* the variables the media peers' signaling does not touch
nosig == <<pc, phaseIdx, cur, exc, exitStatus, loc, final_results, report,
           procs, tc, rxBytes, clock, metricsFile, attackLog, routerIface,
           hist, cfg, monvars, relay, plot>>

\* json.dumps({"sdp": ..., "type": ...}).encode() + b"\n": the line's fields
\* in the order written
EncodeLine(desc) == << "sdp", desc.sdp, "type", desc.type >>
\* json.loads(data.decode()) followed by ["sdp"] and ["type"]
DecodeLine(line) == [sdp |-> line[2], type |-> line[4]]

\* pc.localDescription of sender c after createOffer
Offer(c) == [sdp |-> c, type |-> "offer"]
\* pc.localDescription of the receiver after createAnswer to an offer
Answer(offer) == [sdp |-> offer.sdp, type |-> "answer"]

\* the sender process is gone: its socket is closed, its threads are dead
SenderExit(s, c, why) ==
    [s EXCEPT !.sender[c].at = "done", !.sender[c].end = why,
              !.sender[c].track.pump =
                  IF @ = "run" THEN "exited" ELSE @,
              !.sndClosed[c] = TRUE]

\* asyncio.open_connection: the receiver accepts and starts handle_client, or
\* the connection is refused (OSError: return)
SenderConnect(c) ==
    /\ sig.sender[c].at = "connect"
    /\ \/ sig' = [sig EXCEPT !.sender[c].at = "track",
                             !.handler[c].at = "readline"]
       \/ sig' = [sig EXCEPT !.sender[c].at = "done",
                             !.sender[c].end = "OSError"]
    /\ UNCHANGED nosig

\* GStreamerVideoTrack("game_clip.mp4"): the pipeline plays and the pump
\* thread starts; or it fails to play (running = False, no thread); or the
\* constructor raises (no clip, no pipeline) and run returns
SenderTrack(c) ==
    /\ sig.sender[c].at = "track"
    /\ \/ sig' = [sig EXCEPT !.sender[c].at = "offer",
                             !.sender[c].track =
                                 [NoTrack EXCEPT !.made = TRUE, !.running = TRUE,
                                                 !.pipeline = "PLAYING",
                                                 !.pump = "run"]]
       \/ sig' = [sig EXCEPT !.sender[c].at = "offer",
                             !.sender[c].track =
                                 [NoTrack EXCEPT !.made = TRUE,
                                                 !.pipeline = "FAILED"]]
       \/ sig' = SenderExit(sig, c, "track")
    /\ UNCHANGED nosig

\* setLocalDescription(createOffer()), writer.write(payload), drain
SenderOffer(c) ==
    /\ sig.sender[c].at = "offer"
    /\ sig' = [sig EXCEPT !.sender[c].at = "readline",
                          !.sender[c].offerSent = TRUE,
                          !.toRecv[c] = Append(@, EncodeLine(Offer(c)))]
    /\ UNCHANGED nosig

\* data = await reader.readline(): a line, applied as the remote description
\* (which the peer connection may reject), or end of file (return)
SenderReadline(c) ==
    /\ sig.sender[c].at = "readline"
    /\ IF sig.toSend[c] # << >>
       THEN LET answer == DecodeLine(Head(sig.toSend[c]))
                taken == [sig EXCEPT !.toSend[c] = Tail(@)]
            IN  \/ sig' = [taken EXCEPT !.sender[c].at = "streaming",
                                        !.sender[c].applied = Append(@, answer)]
                \/ sig' = SenderExit(taken, c, "exception")
       ELSE /\ sig.rcvClosed[c]
            /\ sig' = SenderExit(sig, c, "eof")
    /\ UNCHANGED nosig

\* video_track.stop(), writer.close(), pc.close()
StopTrack(t) ==
    [t EXCEPT !.running = FALSE, !.pipeline = "NULL",
              !.pump = IF @ = "run" THEN "exited" ELSE @]

\* "while True: await asyncio.sleep(1); if not video_track.running: break"
\* and the finally block
SenderLoop(c) ==
    /\ sig.sender[c].at = "streaming"
    /\ ~sig.sender[c].track.running
    /\ sig' = [SenderExit(sig, c, "stopped") EXCEPT
                  !.sender[c].track = StopTrack(sig.sender[c].track)]
    /\ UNCHANGED nosig

\* the controller's pkill ends the sender wherever it is
SenderKilled(c) ==
    /\ sig.sender[c].at \notin {"connect", "done"}
    /\ sig' = SenderExit(sig, c, "killed")
    /\ UNCHANGED nosig

\* the pipeline plays a frame; at the end of the clip it posts end-of-stream
PipelinePlays(c) ==
    LET t == sig.sender[c].track
    IN  /\ sig.sender[c].at # "done"
        /\ t.pipeline = "PLAYING"
        /\ t.position < ClipLen
        /\ t.posted < MaxEvents
        /\ sig' = [sig EXCEPT
                     !.sender[c].track.position = @ + 1,
                     !.sender[c].track.posted =
                         IF t.position + 1 = ClipLen THEN @ + 1 ELSE @,
                     !.sender[c].track.bus =
                         IF t.position + 1 = ClipLen THEN Append(@, "EOS")
                         ELSE @]
        /\ UNCHANGED nosig

\* an element of the pipeline posts an error
PipelineError(c) ==
    LET t == sig.sender[c].track
    IN  /\ sig.sender[c].at # "done"
        /\ t.pipeline = "PLAYING"
        /\ t.posted < MaxEvents
        /\ sig' = [sig EXCEPT !.sender[c].track.posted = @ + 1,
                              !.sender[c].track.bus = Append(@, "ERROR")]
        /\ UNCHANGED nosig

\* (variant: an error is logged and playback goes on)
HandleMessageErrorIgnored(t, message) ==
    IF message = "EOS"
    THEN [t EXCEPT !.position = 0, !.seeks = @ + 1,
                   !.handled = Append(@, message)]
    ELSE [t EXCEPT !.handled = Append(@, message)]
\* handle_message: seek to 0 on end-of-stream, running = False on an error
HandleMessage(t, message) ==
    IF message = "EOS"
    THEN [t EXCEPT !.position = 0, !.seeks = @ + 1,
                   !.handled = Append(@, message)]
    ELSE [t EXCEPT !.running = FALSE, !.handled = Append(@, message)]

\* one turn of pump_loop: leave when running is false, else pop a message
\* from the bus and handle it
PumpStep(c) ==
    LET t == sig.sender[c].track
    IN  /\ sig.sender[c].at # "done"
        /\ t.pump = "run"
        /\ IF ~t.running
           THEN sig' = [sig EXCEPT !.sender[c].track.pump = "exited"]
           ELSE /\ t.bus # << >>
                /\ sig' = [sig EXCEPT !.sender[c].track =
                              HandleMessage([t EXCEPT !.bus = Tail(@)],
                                            Head(t.bus))]
        /\ UNCHANGED nosig

\* the handler task is over
HandlerExit(s, c, why) ==
    [s EXCEPT !.handler[c].at = "done", !.handler[c].end = why]

\* (variant: the handler goes on without a line)
HandlerReadlineNoEofCheck(c) ==
    /\ sig.handler[c].at = "readline"
    /\ IF sig.toRecv[c] # << >>
       THEN sig' = [sig EXCEPT !.toRecv[c] = Tail(@),
                               !.handler[c].at = "setRemote",
                               !.handler[c].offer = DecodeLine(Head(sig.toRecv[c]))]
       ELSE /\ sig.sndClosed[c]
            /\ sig' = [sig EXCEPT !.handler[c].at = "setRemote",
                                  !.handler[c].offer = Offer(c)]
    /\ UNCHANGED nosig
\* data = await reader.readline(); if not data: return
HandlerReadline(c) ==
    /\ sig.handler[c].at = "readline"
    /\ IF sig.toRecv[c] # << >>
       THEN sig' = [sig EXCEPT !.toRecv[c] = Tail(@),
                               !.handler[c].at = "setRemote",
                               !.handler[c].offer = DecodeLine(Head(sig.toRecv[c]))]
       ELSE /\ sig.sndClosed[c]
            /\ sig' = HandlerExit(sig, c, "eof")
    /\ UNCHANGED nosig

\* pc.setRemoteDescription(offer), createAnswer, setLocalDescription: the
\* peer connection, shared by all handlers, accepts or raises
HandlerSetRemote(c) ==
    /\ sig.handler[c].at = "setRemote"
    /\ \/ sig' = [sig EXCEPT !.handler[c].at = "answer"]
       \/ sig' = HandlerExit(sig, c, "exception")
    /\ UNCHANGED nosig

\* writer.write(payload), drain
HandlerAnswer(c) ==
    /\ sig.handler[c].at = "answer"
    /\ sig' = [sig EXCEPT !.handler[c].at = "wait",
                          !.handler[c].answers = @ + 1,
                          !.toSend[c] =
                              Append(@, EncodeLine(Answer(sig.handler[c].offer)))]
    /\ UNCHANGED nosig

\* await reader.read(): returns when the sender's end is closed
HandlerWait(c) ==
    /\ sig.handler[c].at = "wait"
    /\ sig.sndClosed[c]
    /\ sig' = HandlerExit(sig, c, "closed")
    /\ UNCHANGED nosig

\* the receiver's end of the connection closes: the controller's pkill of
\* the monitor, or the transport of a finished handler being reclaimed
ReceiverCloses(c) ==
    /\ sig.handler[c].at # "none"
    /\ ~sig.rcvClosed[c]
    /\ sig' = [(IF sig.handler[c].at = "done" THEN sig
                ELSE HandlerExit(sig, c, "killed")) EXCEPT !.rcvClosed[c] = TRUE]
    /\ UNCHANGED nosig

SigInit ==
    /\ MonitorInit
    /\ AuxInit
    /\ ControllerInit(FALSE, TRUE)

SigNext ==
    \E c \in Conns :
        \/ SenderConnect(c) \/ SenderTrack(c) \/ SenderOffer(c)
        \/ SenderReadline(c) \/ SenderLoop(c) \/ SenderKilled(c)
        \/ PipelinePlays(c) \/ PipelineError(c) \/ PumpStep(c)
        \/ HandlerReadline(c) \/ HandlerSetRemote(c) \/ HandlerAnswer(c)
        \/ HandlerWait(c) \/ ReceiverCloses(c)

SigSpec == SigInit /\ [][SigNext]_vars

-----------------------------------------------------------------------------
\* Properties

PhaseIds == 1..NumPhases

\* C1: phases run strictly in the configured order: while the body of phase
\* k executes, exactly the results of phases 1..k-1 are recorded, each under
\* its phase's name, and a written report holds one row per configured phase
\* in that order.
PhasesInOrder ==
    /\ hist.started = 1..phaseIdx
    /\ pc \in TryPcs \ {"for"} => Len(final_results) = phaseIdx - 1
    /\ pc = "for" => Len(final_results) = phaseIdx
    /\ \A i \in 1..Len(final_results) : final_results[i].phase = phases[i].name
    /\ report.written =>
          /\ Len(report.rows) = NumPhases
          /\ \A i \in PhaseIds : report.rows[i].phase = phases[i].name

\* a run that reached the final report after a phase with a failed retrieval
PhasesInOrderWitness ==
    /\ report.written
    /\ hist.retrFail # {}
    /\ Len(report.rows) = NumPhases

\* C2: a step of phase k that fails does not keep the later phases from being
\* executed: when the process has exited after an exception raised by a step
\* of phase k, every phase after k has been started.
FailureDoesNotAbortLaterPhases ==
    (pc = "exited" /\ hist.failedPhase \in PhaseIds) =>
        \A j \in PhaseIds : j > hist.failedPhase => j \in hist.started

\* C3: a retrieval that raises never propagates out of its phase: the phase
\* still records exactly one result under its name, and the loop goes on to
\* the next phase.
RetrievalFailureContained ==
    /\ hist.raisedAt # "download"
    /\ \A f \in hist.retrFail :
          /\ exc = "none"
          /\ pc = "for" =>
                /\ Len(final_results) = f[1]
                /\ final_results[f[1]].phase = phases[f[1]].name
          /\ phaseIdx > f[1] =>
                /\ pc = "router_ifaces"
                /\ phaseIdx = f[1] + 1
                /\ Len(final_results) = f[1]
          /\ (pc = "for" /\ phaseIdx < NumPhases) => ENABLED ForNext

\* the snapshot-log download of a phase raised and the next phase has begun
RetrievalFailureWitness ==
    /\ \E f \in hist.retrFail : f[2] = "metrics" /\ phaseIdx = f[1] + 1
    /\ pc = "router_ifaces"

\* C4: after a collection error in phase k, the recorded avg_fps,
\* total_stall_ms and game_mbps of phase k are not-a-number.
CollectionErrorGivesNaN ==
    \A k \in hist.collErr :
        Len(final_results) >= k =>
            /\ IsNaN(final_results[k].avg_fps)
            /\ IsNaN(final_results[k].total_stall_ms)
            /\ IsNaN(final_results[k].game_mbps)

\* C5: when a step of a phase has failed, the kill of the processes started
\* in that phase is still executed on every node: once the run has ended
\* after the cleanup went over gamer, receiver and attacker, none of them is
\* left running.
CleanupKillsPhaseProcesses ==
    (pc = "exited" /\ hist.failedPhase \in PhaseIds /\ hist.cleanupDone) =>
        \A p \in procs : p.phase # hist.failedPhase

\* C6: a run that ends by an error or an interrupt has completed a cleanup
\* pass over all nodes and exits with a non-zero status.
CleanupBeforeErrorExit ==
    (pc = "exited" /\ exc # "none") => (hist.cleanupDone /\ exitStatus # 0)

\* C7: when a phase is about to start its monitor, no monitor, media sender
\* or competing-flow process of an earlier phase (or of an earlier run) is
\* running on any node.
NoStrayAtMonitorStart ==
    pc = "start_monitor" =>
        \A p \in procs :
            p.kind \in {"monitor", "sender", "iperf_server", "iperf_client"}
                => p.phase >= phaseIdx

\* a competing-flow server of the phase before was running when this phase
\* began, and the phase is about to start its monitor
NoStrayWitness ==
    /\ pc = "start_monitor"
    /\ \E p \in hist.carried :
          p.kind = "iperf_server" /\ p.phase = phaseIdx - 1 /\ p.phase >= 1

\* C8: once the stop step of a phase has finished, no process started in that
\* phase is running on any node.
DrainStopsAll ==
    pc \in {"tc_stats", "download_logs", "attack_log", "metrics", "append"} =>
        \A p \in procs : p.phase # phaseIdx

\* C9: in every phase the monitor is started before the media stream, and in
\* a phase with a competing flow the flow's generator is started at least
\* 5 s before the media stream.
StartOrder ==
    \A k \in PhaseIds :
        LET t == hist.t[k]
        IN  /\ t.media # -1 =>
                 /\ t.monitor # -1 /\ t.monitor < t.media
                 /\ phases[k].attack =>
                       (t.attack # -1 /\ t.media - t.attack >= 5)
            /\ t.attack # -1 => (phases[k].attack /\ t.monitor # -1)

\* the media stream of the wired_attack phase has been started
StartOrderWitness ==
    /\ hist.t[2].media # -1
    /\ hist.t[2].attack # -1
    /\ Proc(Gamer, "sender") \in procs

\* the discipline that the four tc commands of a phase leave on the interface
ExpectedShaping(phase) ==
    [root |-> "htb",
     classes |-> {[classid |-> "1:10", rate |-> 40, ceil |-> 40]},
     leaves |-> {[parent |-> "1:10", kind |-> "netem", limit |-> 1000,
                  lossOpt |-> IF phase.loss = 0 THEN <<>> ELSE <<phase.loss>>]}]

\* C10: after the shaping commands of a phase the interface carries exactly
\* one htb root with one class and one netem leaf, as the phase's profile
\* says, whatever was installed before; and from every discipline the
\* interface can be in, applying a profile twice gives what applying it once
\* gives.
ShapingIdempotent ==
    /\ (pc = "cleanup" /\ cur = 1 /\ loc.r_ifaces) =>
          /\ tc = ExpectedShaping(CurPhase)
          /\ Cardinality(tc.classes) = 1
          /\ Cardinality(tc.leaves) = 1
    /\ \A i \in PhaseIds :
          /\ ApplyShaping(tc, phases[i]) = ExpectedShaping(phases[i])
          /\ ApplyShaping(ApplyShaping(tc, phases[i]), phases[i])
                = ApplyShaping(tc, phases[i])

\* the wired_attack phase has applied, over the discipline the baseline
\* phase left, the profile the baseline phase applied
ShapingWitness ==
    /\ pc = "cleanup" /\ cur = 1 /\ loc.r_ifaces
    /\ phaseIdx = 2
    /\ phases[1].loss = phases[2].loss

\* the steps of a phase body that follow the ROUTER CONFIG block
ShapedPcs == TryPcs \ ({"for"} \cup ShapingPcs)

\* C11: in every phase that found the router's data interface, the shaping
\* in force from the end of the ROUTER CONFIG block to the end of the phase
\* has one class whose guaranteed rate and ceiling are both 40 Mbit/s and one
\* leaf queue limited to 1000 packets, whose loss option is present with the
\* phase's loss value when that is above 0 and absent when it is 0.
ShapingMatchesProfile ==
    (pc \in ShapedPcs /\ loc.r_ifaces) =>
        /\ tc.root = "htb"
        /\ tc.classes # {}
        /\ tc.leaves # {}
        /\ \A c \in tc.classes : c.rate = 40 /\ c.ceil = 40
        /\ \A l \in tc.leaves :
              /\ l.limit = 1000
              /\ CurPhase.loss > 0 => l.lossOpt = <<CurPhase.loss>>
              /\ CurPhase.loss = 0 => l.lossOpt = <<>>

\* the lossy phase measuring under its shaping
ShapingMatchesProfileWitness ==
    /\ pc = "run"
    /\ loc.r_ifaces
    /\ CurPhase.loss > 0
    /\ \E l \in tc.leaves : l.lossOpt = <<CurPhase.loss>>

\* C12: a phase whose shaping could not be applied does not start the media
\* stream and records no result, and the phases after it are still
\* executed: with no data interface found on the router the phase's sender
\* is never started, and a run that ended by an exception of a shaping
\* command has started every later phase.
ShaperFailurePhaseFatalOnly ==
    /\ (pc \in ShapedPcs /\ ~loc.r_ifaces) => Proc(Gamer, "sender") \notin procs
    /\ (pc = "for" /\ phaseIdx >= 1 /\ ~loc.r_ifaces) =>
          Len(final_results) < phaseIdx
    /\ (pc = "exited" /\ hist.raisedAt = "shaping"
            /\ hist.failedPhase \in PhaseIds) =>
          \A j \in PhaseIds : j > hist.failedPhase => j \in hist.started

\* what is left of the endpoint loop: attempts left on this node and all
\* attempts of the nodes after it
RetryMeasure(c) ==
    (Len(CfgNodes) + 1 - c.node) * MaxAttempts - c.attempt

\* C13: the endpoint loop makes at most 3 attempts on a node, consecutive
\* attempts on a node begin exactly 5 s apart, a node whose attempt succeeded
\* or that was given up on is not attempted again, and every pass through
\* the loop body brings the loop closer to its end.
RetryIsBounded ==
    /\ [](pc = "netcfg_node" =>
            /\ cfg.node \in 1..Len(CfgNodes)
            /\ cfg.attempt = Len(cfg.times)
            /\ Len(cfg.times) + 1 <= 3
            /\ \A i \in 1..(Len(cfg.times) - 1) :
                  cfg.times[i + 1] - cfg.times[i] = 5
            /\ cfg.times # <<>> => clock - cfg.times[Len(cfg.times)] = 5
            /\ CfgNodes[cfg.node] \notin cfg.configured \cup cfg.exhausted)
    /\ [][pc = "netcfg_node" =>
            /\ RetryMeasure(cfg') < RetryMeasure(cfg) \/ pc' \notin SetupPcs
            /\ RetryMeasure(cfg') >= 0]_vars

\* the third attempt on the second node is about to begin, the first node
\* having been configured
RetryIsBoundedWitness ==
    /\ pc = "netcfg_node"
    /\ cfg.node = 2
    /\ Len(cfg.times) = 2
    /\ Gamer \in cfg.configured

\* C14: running out of attempts on a node raises nothing and goes on with
\* the next node or the rest of the configuration, and once the endpoint
\* loop is left no step goes back into it or changes what it did.
ExhaustionDoesNotAbort ==
    [][/\ cfg'.exhausted # cfg.exhausted =>
            /\ exc' = "none"
            /\ pc' \in {"netcfg_node", "netcfg_receiver"}
            /\ cfg'.node = cfg.node + 1
       /\ pc \notin {"netcfg", "netcfg_node"} =>
            /\ pc' # "netcfg_node"
            /\ cfg' = cfg]_vars

\* a run that gave up on an endpoint node and still ran all its phases and
\* wrote the report
ExhaustionDoesNotAbortWitness ==
    /\ cfg.exhausted # {}
    /\ report.written
    /\ hist.started = PhaseIds

\* C15: the first frame a monitor observes only records the arrival time:
\* update() leaves the stall counter and the accumulated stall duration as
\* they were, and on_frame() adds no stall event, however late after the
\* monitor's start the frame arrives.
FirstFrameNeverStall ==
    [][(mhist.arrivals = <<>> /\ mhist'.arrivals # <<>>) =>
            /\ rec'.stalls = rec.stalls
            /\ rec'.total_stall_duration = rec.total_stall_duration
            /\ rec'.last_frame_time = now
            /\ perf'.stall_events = perf.stall_events
            /\ perf'.last_frame_time = now]_vars

\* the first frame has arrived more than both thresholds after the start
FirstFrameNeverStallWitness ==
    /\ Len(mhist.arrivals) = 1
    /\ mhist.arrivals[1] > StallThresholdMs
    /\ mhist.arrivals[1] > PerfStallThresholdMs
    /\ rec.started
    /\ perf.frame_count = 1

\* the frames of an arrival sequence that are stalls under a threshold
StallSet(arrivals, threshold) ==
    {i \in 2..Len(arrivals) : IsStall(arrivals[i] - arrivals[i - 1], threshold)}

\* C16: for every arrival sequence and thresholds T1 < T2 the frames that are
\* stalls under T2 are among those that are stalls under T1, and the frames
\* each monitor classified as stalls are exactly those whose gap to the
\* frame before is strictly above its threshold (200 ms and 100 ms).
StallMonotonic ==
    /\ \A T1, T2 \in {100, 200, 300} :
          T1 < T2 => StallSet(mhist.arrivals, T2) \subseteq StallSet(mhist.arrivals, T1)
    /\ \A i \in 1..Len(mhist.arrivals) :
          /\ i \in mhist.stalled <=>
                (i > 1 /\ mhist.arrivals[i] - mhist.arrivals[i - 1] > 200)
          /\ (\E j \in 1..Len(perf.stall_events) : perf.stall_events[j].frame = i)
                <=> (i > 1 /\ mhist.arrivals[i] - mhist.arrivals[i - 1] > 100)

\* a sequence with a gap of exactly 200 ms (a stall under 100 ms only) and a
\* longer one (a stall under every threshold)
StallMonotonicWitness ==
    /\ mhist.stalled # {}
    /\ \E i \in 2..Len(mhist.arrivals) :
          /\ mhist.arrivals[i] - mhist.arrivals[i - 1] = 200
          /\ i \notin mhist.stalled
          /\ i \in StallSet(mhist.arrivals, 100)

\* C17: every tick of log_periodically has appended exactly one snapshot
\* row by the time it goes back to sleep, ticks before the first frame
\* included.
EveryTickEmitsRow ==
    lp.at = "sleep" => Len(snapshots) = mhist.ticks

\* C18: a snapshot with fps = 0 has bitrate_mbps = 0, whatever the
\* statistics reported at that tick.
ZeroFramesZeroSnapshot ==
    \A i \in 1..Len(snapshots) :
        snapshots[i].fps = 0 => IsZero(snapshots[i].bitrate_mbps)

RECURSIVE SumFps(_)
SumFps(rows) ==
    IF rows = <<>> THEN 0 ELSE Head(rows).fps + SumFps(Tail(rows))

\* C19: every frame counted by update() is reported in exactly one snapshot:
\* between ticks, the fps of all snapshots and the frames counted since the
\* last tick add up to the number of frames counted.
FramesReportedOnce ==
    lp.at = "sleep" => SumFps(snapshots) + rec.frames_received = mhist.counted

\* C20: after the track has ended every tick still appends one row, and from
\* the second row after the end on (the first may hold frames from before
\* it) the rows have fps = 0.
TicksContinueAfterTrackEnd ==
    (track = "ended" /\ lp.at = "sleep") =>
        /\ Len(snapshots) - mhist.endRows = mhist.ticks - mhist.endTick
        /\ \A i \in 1..Len(snapshots) :
              i > mhist.endRows + 1 => snapshots[i].fps = 0

\* C21: every emitted snapshot's bitrate_mbps is (bytes received since the
\* previous tick) * 8 / (1 s * 1_000_000), the first snapshot included, and
\* is never negative.
BitrateIsWindowBytes ==
    \A i \in 1..Len(snapshots) :
        /\ snapshots[i].bitrate_mbps =
               Num(mhist.windowBytes[i] * 8, TickSeconds * 1000000)
        /\ NumLe(Int2Num(0), snapshots[i].bitrate_mbps)

\* the controller has reduced the current phase's snapshot log
\* (ReadGameMetrics has run); Retrieved(what) tells whether that download
\* of the current phase succeeded
Retrieved(what) == <<phaseIdx, what>> \notin hist.retrFail

\* the controller has just appended the current phase's result
Recorded == pc = "for" /\ phaseIdx >= 1 /\ Len(final_results) = phaseIdx

\* C22: avg_fps is the arithmetic mean of the fps column over all snapshot
\* rows of the phase and total_stall_ms the sum of the stall_duration_ms
\* column; a phase with zero snapshot rows (or no log) yields 0 and 0 and
\* does not raise.
FpsMeanAndStallSum ==
    pc = "append" =>
        LET rows == metricsFile.rows
            fps == Column(rows, "fps")
            stall == Column(rows, "stall_duration_ms")
        IN  /\ (Retrieved("metrics") /\ rows # <<>>
                /\ ~AnyBad(fps) /\ ~AnyBad(stall)) =>
                   /\ NumMul(loc.r_avg_fps, Int2Num(Len(rows))) = NumSum(fps)
                   /\ loc.r_stall_time = NumSum(stall)
            /\ (Retrieved("metrics") /\ rows = GoodRows) =>
                   /\ loc.r_avg_fps = Cell(45)
                   /\ loc.r_stall_time = Cell(250)
            /\ (~Retrieved("metrics") \/ rows = <<>>) =>
                   /\ IsZero(loc.r_avg_fps)
                   /\ IsZero(loc.r_stall_time)
                   /\ exc = "none"

FpsMeanAndStallSumWitness ==
    /\ pc = "append"
    /\ Retrieved("metrics")
    /\ Len(metricsFile.rows) = 2
    /\ metricsFile.rows[1].fps # metricsFile.rows[2].fps
    /\ metricsFile.rows[1].bitrate_mbps = Cell(20)
    /\ loc.r_avg_fps = Cell(45)
    /\ loc.r_stall_time = Cell(250)

\* every field of the snapshot log parses
AllParse(rows) ==
    \A f \in {"fps", "stall_duration_ms", "bitrate_mbps"} :
        ~AnyBad(Column(rows, f))

\* C23: when the phase's snapshots carry a bitrate field, game_mbps is the
\* mean of their bitrate_mbps, whatever the interface byte counters and the
\* competing throughput are.
GameMbpsIsBitrateMean ==
    (pc = "append" /\ Retrieved("metrics") /\ metricsFile.rows # <<>>
     /\ metricsFile.hasBitrate /\ AllParse(metricsFile.rows)) =>
        NumMul(loc.game_mbps, Int2Num(Len(metricsFile.rows)))
            = NumSum(Column(metricsFile.rows, "bitrate_mbps"))

GameMbpsIsBitrateMeanWitness ==
    /\ pc = "append" /\ Retrieved("metrics") /\ metricsFile.hasBitrate
    /\ CurPhase.attack
    /\ metricsFile.rows = RateLog(7).rows
    /\ loc.game_mbps = Cell(7)
    /\ loc.total_mbps = Cell(40)
    /\ loc.attack_throughput = Cell(3)

\* no snapshot of the phase carries a usable bitrate field: the log was not
\* retrieved, has no rows, lacks the column or holds a field that does not
\* parse
NoBitrateField ==
    \/ ~Retrieved("metrics")
    \/ metricsFile.rows = <<>>
    \/ ~metricsFile.hasBitrate
    \/ ~AllParse(metricsFile.rows)

InterfaceMbps ==
    Num((loc.end_bytes - loc.start_bytes) * 8, RunSeconds * 1000000)

\* C24 (as stated): without a bitrate field game_mbps falls back to the
\* interface-layer figure (endBytes - startBytes) * 8 / (40 * 1_000_000).
FallbackIsInterfaceFigure ==
    (pc = "append" /\ NoBitrateField) => loc.game_mbps = InterfaceMbps

\* C24 (amended): without a bitrate field game_mbps falls back to the
\* interface-layer figure less the competing throughput, clamped at 0
\* (the competing throughput is 0 in a phase without a competing flow; the
\* result is 0 when the competing throughput is not-a-number).
FallbackIsInterfaceLessCompeting ==
    (pc = "append" /\ NoBitrateField) =>
        LET a == loc.attack_throughput
        IN  /\ ~CurPhase.attack => IsZero(a)
            /\ IF ~IsNaN(a) /\ NumGt(InterfaceMbps, a)
               THEN NumAdd(loc.game_mbps, a) = InterfaceMbps
               ELSE IsZero(loc.game_mbps)

FallbackIsInterfaceLessCompetingWitness ==
    /\ pc = "append" /\ NoBitrateField
    /\ CurPhase.attack
    /\ InterfaceMbps = Cell(40)
    /\ loc.attack_throughput = Cell(35)
    /\ loc.game_mbps = Cell(5)

\* the rates the controller parses out of the current attack.log
ParsedSamples ==
    ParseRates(attackLog.lines,
               \E i \in 1..Len(attackLog.lines) : attackLog.lines[i].tag = "SUM")

\* C25: the competing throughput is the mean of the parsed samples; in a
\* competing-flow phase with zero parsed samples (empty, unparseable or
\* undownloadable log) it is not-a-number and so is the phase's fairness
\* index.
CompetingThroughputMeanOrNaN ==
    /\ (pc \in {"metrics", "append"} /\ CurPhase.attack) =>
          IF Retrieved("attack") /\ ParsedSamples # <<>>
          THEN NumMul(loc.attack_throughput, Int2Num(Len(ParsedSamples)))
                  = NumSum(ParsedSamples)
          ELSE IsNaN(loc.attack_throughput)
    /\ (Recorded /\ CurPhase.attack
        /\ (~Retrieved("attack") \/ ParsedSamples = <<>>)) =>
          /\ IsNaN(final_results[phaseIdx].attack_mbps)
          /\ IsNaN(final_results[phaseIdx].j_index)

CompetingThroughputMeanOrNaNWitness ==
    /\ Recorded /\ CurPhase.attack
    /\ Retrieved("attack") /\ attackLog.lines # <<>> /\ ParsedSamples = <<>>
    /\ IsNaN(final_results[phaseIdx].j_index)

\* C26: the fairness index recorded for a phase without a competing flow
\* (the baseline phase) is exactly 1.0.
BaselineFairnessIsOne ==
    \A i \in 1..Len(final_results) :
        ~phases[i].attack => final_results[i].j_index = Int2Num(1)

\* C27: in a competing-flow phase the recorded fairness index is
\* (a+b)^2 / (2*(a^2+b^2)) and lies in [0.5, 1.0] for positive throughputs
\* a (application) and b (competing); it is exactly 1.0 when b is 0.
FairnessWithinBounds ==
    (Recorded /\ CurPhase.attack) =>
        LET r == final_results[phaseIdx]
            a == r.game_mbps
            b == r.attack_mbps
            j == r.j_index
        IN  /\ (NumGt(a, Int2Num(0)) /\ NumGt(b, Int2Num(0))) =>
                  /\ NumLe(Num(1, 2), j)
                  /\ NumLe(j, Int2Num(1))
                  /\ NumMul(j, NumMul(Int2Num(2),
                                NumAdd(NumMul(a, a), NumMul(b, b))))
                        = NumMul(NumAdd(a, b), NumAdd(a, b))
            /\ (IsZero(b) /\ ~IsNaN(a)) => j = Int2Num(1)

FairnessWithinBoundsWitness ==
    /\ Recorded /\ CurPhase.attack
    /\ final_results[phaseIdx].game_mbps = Cell(1)
    /\ final_results[phaseIdx].attack_mbps = Cell(MaxMbps)
    /\ NumLe(final_results[phaseIdx].j_index, Num(11, 20))

\* the result just recorded is that of a competing-flow phase with
\* application throughput a and competing throughput b
RecordedRates(a, b) ==
    /\ Recorded /\ CurPhase.attack
    /\ final_results[phaseIdx].game_mbps = Cell(a)
    /\ final_results[phaseIdx].attack_mbps = Cell(b)

\* C28 (as stated): with throughputs 20 and 20 the fairness index is 1.0,
\* with 5 and 35 it is approximately 0.78 (0.78 to two decimals).
ScenarioCFairness ==
    /\ RecordedRates(20, 20) => final_results[phaseIdx].j_index = Int2Num(1)
    /\ RecordedRates(5, 35) =>
          /\ NumLe(Num(775, 1000), final_results[phaseIdx].j_index)
          /\ NumLe(final_results[phaseIdx].j_index, Num(785, 1000))

\* C28 (amended): with throughputs 20 and 20 the fairness index is 1.0,
\* with 5 and 35 it is 0.64.
ScenarioCFairnessAmended ==
    /\ RecordedRates(20, 20) => final_results[phaseIdx].j_index = Int2Num(1)
    /\ RecordedRates(5, 35) => final_results[phaseIdx].j_index = Num(64, 100)

ScenarioCFairnessAmendedWitness ==
    /\ RecordedRates(5, 35)
    /\ final_results[phaseIdx].j_index = Num(16, 25)

\* C29: the harm factor is contention stall / baseline stall when the
\* baseline stall is nonzero, 999 when the baseline stall is zero and the
\* contention stall is not, and 0 otherwise (0/0 gives 0, 100/500 gives 5).
HarmFactorCases ==
    (report.written /\ Len(report.rows) >= 2) =>
        /\ Len(report.summary) = 1
        /\ LET b == report.rows[1].total_stall_ms
               c == report.rows[2].total_stall_ms
               h == report.summary[1].harm_factor
           IN  /\ NumGt(b, Int2Num(0)) => NumMul(h, b) = c
               /\ (IsZero(b) /\ NumGt(c, Int2Num(0))) => h = Cell(999)
               /\ (IsZero(b) /\ IsZero(c)) => h = Cell(0)
               /\ (b = Cell(100) /\ c = Cell(500)) => h = Cell(5)

HarmFactorCasesWitness ==
    /\ report.written
    /\ report.rows[1].total_stall_ms = Cell(0)
    /\ report.rows[2].total_stall_ms = Cell(500)
    /\ report.summary[1].harm_factor = Cell(999)

\* C30: degradation is reported exactly when (baseline fps - contention
\* fps) / baseline fps > 0.3 or the contention stall total > 1000 (a
\* baseline of 0 fps counts as no drop); 60 against 40 fps is reported,
\* equal fps with zero stall is not.
DegradationExactlyWhen ==
    (report.written /\ Len(report.rows) >= 2) =>
        /\ Len(report.summary) = 1
        /\ LET bf == report.rows[1].avg_fps
               cf == report.rows[2].avg_fps
               cs == report.rows[2].total_stall_ms
               drop == /\ NumGt(bf, Int2Num(0))
                       /\ NumGt(NumMul(NumSub(bf, cf), Int2Num(10)),
                                NumMul(Int2Num(3), bf))
           IN  /\ report.summary[1].activated
                     <=> (drop \/ NumGt(cs, Int2Num(1000)))
               /\ (bf = Cell(60) /\ cf = Cell(40)) => report.summary[1].activated
               /\ (bf = cf /\ IsZero(cs)) => ~report.summary[1].activated

DegradationExactlyWhenWitness ==
    /\ report.written
    /\ report.rows[1].avg_fps = Cell(60)
    /\ report.rows[2].avg_fps = Cell(40)
    /\ report.rows[2].total_stall_ms = Cell(0)
    /\ report.summary[1].activated

\* C31: the fairness, harm-factor and degradation computations never raise:
\* whatever the phase results (baseline fps 0, baseline stall 0, zero or
\* not-a-number throughputs, a non-positive fairness denominator), each
\* yields a number or not-a-number and the report is produced.
DerivationNeverRaises ==
    /\ exc # "ZeroDivisionError"
    /\ Recorded => final_results[phaseIdx].j_index.k \in {"num", "nan"}
    /\ report.written =>
          /\ report.rows = final_results
          /\ Len(report.rows) >= 2 =>
                /\ Len(report.summary) = 1
                /\ report.summary[1].harm_factor.k \in {"num", "nan"}
                /\ report.summary[1].activated \in BOOLEAN

DerivationNeverRaisesWitness ==
    /\ report.written /\ exitStatus = 0
    /\ IsZero(report.rows[1].avg_fps)
    /\ IsZero(report.rows[1].total_stall_ms)
    /\ NumGt(report.rows[2].avg_fps, Int2Num(0))
    /\ Len(report.summary) = 1

\* how many copies of the message of log entry e were sent to peer q
Copies(q, e) ==
    Cardinality({i \in 1..Len(relay.delivered[q]) :
                    relay.delivered[q][i] = [from |-> e.from, msg |-> e.msg]})

\* the relay is no longer forwarding the message of log entry e
Forwarded(e) == ~(relay.h[e.from].at = "send" /\ relay.h[e.from].msg = e.msg)

\* every peer that was registered when e was received and is still connected
\* has its copy
ReachedAll(e) ==
    \A q \in e.audience : relay.conn[q] = "open" => Copies(q, e) = 1

\* C32: the relay forwards every message unchanged, exactly once, to every
\* other peer connected at that time and never back to the sender, and one
\* sender's messages reach each recipient in the order received.
RelayForwardsOnceToAll ==
    /\ \A i \in 1..Len(relay.log) :
          LET e == relay.log[i]
          IN  /\ Copies(e.from, e) = 0
              /\ \A q \in Peers : Copies(q, e) <= 1
              /\ Forwarded(e) => ReachedAll(e)
    /\ \A q \in Peers :
          LET d == relay.delivered[q]
          IN  /\ \A i \in 1..Len(d) :
                    \E j \in 1..Len(relay.log) :
                        /\ relay.log[j].from = d[i].from
                        /\ relay.log[j].msg = d[i].msg
                        /\ d[i].msg[1] = d[i].from
              /\ \A i, j \in 1..Len(d) :
                    (i < j /\ d[i].from = d[j].from) => d[i].msg[2] < d[j].msg[2]

\* C33: when forwarding to a peer fails because that peer's connection is
\* closed, the sending peer stays connected and its message still reaches
\* the remaining peers.
SendFailureClosesOnlyThatPeer ==
    /\ \A p \in Peers :
          ~(relay.h[p].end = "ConnectionClosed" /\ relay.h[p].wasOpen)
    /\ \A i \in 1..Len(relay.log) :
          LET e == relay.log[i]
          IN  (Forwarded(e) /\ relay.h[e.from].end = "ConnectionClosed")
                 => ReachedAll(e)

\* C37: CONNECTED is the set of peers whose handler is active, and a peer
\* connecting or disconnecting while a message is being forwarded never
\* makes the forwarding handler fail or skip a peer that stays connected.
RegistryConsistentUnderConcurrency ==
    /\ relay.CONNECTED = {p \in Peers : relay.h[p].at \in {"recv", "send"}}
    /\ \A p \in Peers : relay.h[p].end # "RuntimeError"
    /\ \A i \in 1..Len(relay.log) :
          LET e == relay.log[i]
          IN  (Forwarded(e) /\ relay.h[e.from].end # "ConnectionClosed")
                 => \A q \in e.audience \cap relay.CONNECTED :
                        relay.conn[q] = "open" => Copies(q, e) = 1

-----------------------------------------------------------------------------
PlotHarmEqualsControllerHarm ==
    (/\ plot.ran
     /\ Len(report.summary) = 1
     /\ NumLe(Int2Num(0), report.rows[1].total_stall_ms)
     /\ NumLe(Int2Num(0), report.rows[2].total_stall_ms))
        => /\ Len(plot.harms) = Len(report.rows) - 1
           /\ plot.harms[1].phase = report.rows[2].phase
           /\ plot.harms[1].harm = report.summary[1].harm_factor

\* both computed the sentinel for a stall-free baseline and a stalled attack
PlotHarmEqualsControllerHarmWitness ==
    /\ plot.ran
    /\ Len(report.summary) = 1
    /\ IsZero(report.rows[1].total_stall_ms)
    /\ report.rows[2].total_stall_ms = Int2Num(500)
    /\ plot.harms[1].harm = Int2Num(999)
    /\ report.summary[1].harm_factor = Int2Num(999)

-----------------------------------------------------------------------------
PipelineEventHandling ==
    /\ [](\A c \in Conns :
            sig.sender[c].end = "stopped" =>
                /\ ~sig.sender[c].track.running
                /\ sig.sender[c].track.pipeline = "NULL"
                /\ sig.sender[c].track.pump # "run"
                /\ sig.sndClosed[c])
    /\ [][\A c \in Conns :
            LET t == sig.sender[c].track
                u == sig'.sender[c].track
                popped == Len(u.handled) > Len(t.handled)
            IN  /\ (popped /\ u.handled[Len(u.handled)] = "EOS") =>
                      (u.position = 0 /\ u.seeks = t.seeks + 1 /\ u.running)
                /\ (popped /\ u.handled[Len(u.handled)] = "ERROR") => ~u.running
                /\ (t.made /\ ~t.running) =>
                      (/\ ~u.running
                       /\ u.handled = t.handled
                       /\ u.seeks = t.seeks
                       /\ u.position >= t.position)]_vars

\* a sender that looped once on end-of-stream, then met an error and stopped
PipelineEventHandlingWitness ==
    \E c \in Conns :
        /\ sig.sender[c].track.handled = << "EOS", "ERROR" >>
        /\ sig.sender[c].track.seeks = 1
        /\ sig.sender[c].end = "stopped"
        /\ sig.sender[c].track.pipeline = "NULL"
        /\ sig.sndClosed[c]

-----------------------------------------------------------------------------
\* C40: whenever the retries on an endpoint node end without the node being
\* given up on (no error logged) and the loop goes on to the next node, the
\* node's address, route and firewall commands were issued in that attempt.
QuietEndMeansCommandsIssued ==
    [][(/\ pc = "netcfg_node"
        /\ cfg.node < Len(CfgNodes)
        /\ cfg'.node = cfg.node + 1
        /\ CfgNodes[cfg.node] \notin cfg'.exhausted)
          => CfgNodes[cfg.node] \in cfg'.configured]_vars

-----------------------------------------------------------------------------
\* C38: when the controller downloads and reduces the snapshot log of a
\* phase, no monitor is running on the receiver, and every row of the log it
\* has reduced was written by the monitor started in that phase.
SnapshotIsolation ==
    /\ pc \in {"metrics", "append"} =>
          \A p \in procs : ~(p.node = Receiver /\ p.kind = "monitor")
    /\ (pc = "append" /\ Retrieved("metrics") /\ metricsFile.exists
                      /\ metricsFile.rows # << >>) =>
          metricsFile.by = phaseIdx

=============================================================================
